---- MODULE Spec2Model ----
(***************************************************************************)
(* A model of the chunked-upload relay: the three HTTP handlers            *)
(* (upload-session, upload-chunk, upload-complete), the session registry   *)
(* (checkAndUpdateSession), the scratch directory on the local file        *)
(* system and the WebDAV backend.                                          *)
(*                                                                         *)
(* Strings of the program are sequences of one-character strings, so that  *)
(* filepath.Base, filepath.Clean, filepath.Join, strconv.Atoi and          *)
(* strings.ReplaceAll are computed character by character as Go does.      *)
(***************************************************************************)
EXTENDS Integers, Sequences, FiniteSets, TLC

----------------------------------------------------------------------------
(* Bounds of the model *)

\* longest upload identifier enumerated by the path specification
MaxIdLen == 3
\* number of chunk indices 0..MaxChunks-1 a client may send for one upload
MaxChunks == 11
\* largest totalFiles a client registers
MaxFiles == 3
\* last clock second the model reaches (time.Now().Unix() runs 1..MaxTime)
MaxTime == 2

----------------------------------------------------------------------------
(* Characters and strings *)

\* the characters in use, in ASCII order
Alphabet ==
  << " ", "(", ")", "+", "-", ".", "/",
     "0", "1", "2", "3", "4", "5", "6", "7", "8", "9",
     "@", "_", "a", "b", "c", "d", "e", "l", "p", "s", "t", "u", "x", "y" >>

CharCode(c) == CHOOSE i \in 1..Len(Alphabet) : Alphabet[i] = c

Digits == <<"0", "1", "2", "3", "4", "5", "6", "7", "8", "9">>

IsDigit(c) == \E i \in 1..10 : Digits[i] = c

\* bytewise comparison of two strings (Go's < on strings)
RECURSIVE StrLess(_, _)
StrLess(a, b) ==
  IF b = <<>> THEN FALSE
  ELSE IF a = <<>> THEN TRUE
  ELSE IF a[1] = b[1] THEN StrLess(Tail(a), Tail(b))
  ELSE CharCode(a[1]) < CharCode(b[1])

\* all strings over chars of length at most n
RECURSIVE StringsUpTo(_, _)
StringsUpTo(chars, n) ==
  IF n = 0 THEN { <<>> }
  ELSE LET shorter == StringsUpTo(chars, n - 1)
       IN shorter \cup { Append(s, c) : s \in shorter, c \in chars }

\* fmt.Sprintf("%d", n) for n >= 0
RECURSIVE Itoa(_)
Itoa(n) ==
  IF n < 10 THEN << Digits[n + 1] >>
  ELSE Append(Itoa(n \div 10), Digits[(n % 10) + 1])

\* A Go int: its sign and its magnitude, the decimal digits without leading
\* zeros (none for 0). int has 64 bits on the platforms the image is built
\* for.
GoInt(neg, mag) == [ neg |-> neg /\ mag # <<>>, mag |-> mag ]

RECURSIVE StripZeros(_)
StripZeros(s) ==
  IF s # <<>> /\ s[1] = "0" THEN StripZeros(Tail(s)) ELSE s

\* a < b for magnitudes
MagLess(a, b) ==
  Len(a) < Len(b) \/ (Len(a) = Len(b) /\ StrLess(a, b))

\* x < y for Go ints
IntLess(x, y) ==
  IF x.neg # y.neg THEN x.neg
  ELSE IF x.neg THEN MagLess(y.mag, x.mag)
  ELSE MagLess(x.mag, y.mag)

\* math.MaxInt64, the magnitude of math.MinInt64, and math.MaxUint64
MaxIntMag ==
  << "9", "2", "2", "3", "3", "7", "2", "0", "3", "6",
     "8", "5", "4", "7", "7", "5", "8", "0", "7" >>

MinIntMag ==
  << "9", "2", "2", "3", "3", "7", "2", "0", "3", "6",
     "8", "5", "4", "7", "7", "5", "8", "0", "8" >>

MaxUintMag ==
  << "1", "8", "4", "4", "6", "7", "4", "4", "0", "7",
     "3", "7", "0", "9", "5", "5", "1", "6", "1", "5" >>

\* what strconv.Atoi returns for the value that does not fit an int: the
\* int of the largest magnitude of its sign (the error is ErrRange)
OutOfRange(neg) == GoInt(neg, IF neg THEN MinIntMag ELSE MaxIntMag)

\* the digits s begins with
RECURSIVE LeadingDigits(_)
LeadingDigits(s) ==
  IF s = <<>> \/ ~IsDigit(s[1]) THEN <<>>
  ELSE << s[1] >> \o LeadingDigits(Tail(s))

\* strconv.Atoi with the error dropped (numI, _ := strconv.Atoi(name)):
\* an optional sign and then digits only. Anything else is a syntax error,
\* for which Atoi returns 0, unless the digits before the offending
\* character have already run past MaxUint64; a value that does not fit an
\* int is a range error, for which Atoi returns the nearest int.
Atoi(s) ==
  LET signed == s # <<>> /\ s[1] \in {"+", "-"}
      neg    == signed /\ s[1] = "-"
      body   == IF signed THEN Tail(s) ELSE s
      mag    == StripZeros(LeadingDigits(body))
  IN IF body = <<>> THEN GoInt(FALSE, <<>>)
     ELSE IF MagLess(MaxUintMag, mag) THEN OutOfRange(neg)
     ELSE IF LeadingDigits(body) # body THEN GoInt(FALSE, <<>>)
     ELSE IF MagLess(IF neg THEN MinIntMag ELSE MaxIntMag, mag) THEN OutOfRange(neg)
     ELSE GoInt(neg, mag)

\* strings.ReplaceAll(s, old, new) for a one-character old
RECURSIVE ReplaceAll(_, _, _)
ReplaceAll(s, old, new) ==
  IF s = <<>> THEN <<>>
  ELSE (IF s[1] = old THEN new ELSE << s[1] >>) \o ReplaceAll(Tail(s), old, new)

\* strings.Join(parts, sep)
RECURSIVE StrJoin(_, _)
StrJoin(parts, sep) ==
  IF parts = <<>> THEN <<>>
  ELSE IF Len(parts) = 1 THEN parts[1]
  ELSE parts[1] \o sep \o StrJoin(Tail(parts), sep)

----------------------------------------------------------------------------
(* path/filepath on a Unix build *)

Separator == "/"

\* the elements of a path between separators (empty elements included)
RECURSIVE SplitPath(_, _, _)
SplitPath(s, cur, acc) ==
  IF s = <<>> THEN Append(acc, cur)
  ELSE IF s[1] = Separator THEN SplitPath(Tail(s), <<>>, Append(acc, cur))
  ELSE SplitPath(Tail(s), Append(cur, s[1]), acc)

RECURSIVE StripTrailingSeparators(_)
StripTrailingSeparators(path) ==
  IF path # <<>> /\ path[Len(path)] = Separator
  THEN StripTrailingSeparators(SubSeq(path, 1, Len(path) - 1))
  ELSE path

\* filepath.Base: the last element of path; "." for the empty path and
\* "/" for a path of separators only
Base(path) ==
  IF path = <<>> THEN << "." >>
  ELSE LET stripped == StripTrailingSeparators(path)
           elems    == SplitPath(stripped, <<>>, <<>>)
           last     == elems[Len(elems)]
       IN IF last = <<>> THEN << Separator >> ELSE last

\* the element loop of filepath.Clean: drop empty and "." elements, let
\* ".." remove the element before it, keep a leading ".." only when the
\* path is not rooted
RECURSIVE CleanElems(_, _, _)
CleanElems(elems, out, rooted) ==
  IF elems = <<>> THEN out
  ELSE LET e == elems[1]
           rest == Tail(elems)
       IN IF e = <<>> \/ e = << "." >> THEN CleanElems(rest, out, rooted)
          ELSE IF e = << ".", "." >>
               THEN IF out # <<>> /\ out[Len(out)] # << ".", "." >>
                    THEN CleanElems(rest, SubSeq(out, 1, Len(out) - 1), rooted)
                    ELSE IF rooted THEN CleanElems(rest, out, rooted)
                    ELSE CleanElems(rest, Append(out, e), rooted)
          ELSE CleanElems(rest, Append(out, e), rooted)

\* filepath.Clean
Clean(path) ==
  IF path = <<>> THEN << "." >>
  ELSE LET rooted == path[1] = Separator
           out    == CleanElems(SplitPath(path, <<>>, <<>>), <<>>, rooted)
           joined == StrJoin(out, << Separator >>)
       IN IF rooted THEN << Separator >> \o joined
          ELSE IF joined = <<>> THEN << "." >> ELSE joined

\* filepath.Join(a, b): the non-empty elements joined by a separator, cleaned
Join(a, b) ==
  IF a = <<>> /\ b = <<>> THEN <<>>
  ELSE IF a = <<>> THEN Clean(b)
  ELSE IF b = <<>> THEN Clean(a)
  ELSE Clean(a \o << Separator >> \o b)

\* filepath.Dir of a cleaned absolute path: all but the last element
Dir(path) ==
  LET last == CHOOSE i \in 1..Len(path) :
                /\ path[i] = Separator
                /\ \A j \in (i + 1)..Len(path) : path[j] # Separator
  IN IF last = 1 THEN << Separator >> ELSE SubSeq(path, 1, last - 1)

\* whether cleaned absolute path q lies strictly below cleaned absolute path p
IsBelow(q, p) ==
  IF p = << Separator >> THEN q # p
  ELSE /\ Len(q) > Len(p)
       /\ SubSeq(q, 1, Len(p)) = p
       /\ q[Len(p) + 1] = Separator

----------------------------------------------------------------------------
(* Configuration *)

\* appConfig.UploadTempDir; the default has a trailing separator like this one
UploadTempDir == << "/", "t", "/" >>

\* the scratch root as a cleaned path
ScratchRoot == Clean(UploadTempDir)

\* the name of the metadata note in the destination folder
DescriptionFile ==
  << "d", "e", "s", "c", "r", "i", "p", "c", "i", "o", "n", ".", "t", "x", "t" >>

----------------------------------------------------------------------------
(* The local file system: a function from cleaned absolute paths to nodes. *)
(* A node is a directory or a file with its bytes; owner is a history      *)
(* field, the normalized upload identifier of the request that created it. *)

DirNode == [dir |-> TRUE, data |-> <<>>, owner |-> <<>>]

FileNode(data, owner) == [dir |-> FALSE, data |-> data, owner |-> owner]

\* the state main() leaves after os.MkdirAll(appConfig.UploadTempDir)
InitialFS ==
  [q \in { << "/" >>, ScratchRoot } |-> DirNode]

IsDir(f, path) == path \in DOMAIN f /\ f[path].dir

IsFile(f, path) == path \in DOMAIN f /\ ~f[path].dir

\* path and every ancestor of it, "/" included
RECURSIVE PathAndAncestors(_)
PathAndAncestors(path) ==
  IF path = << "/" >> THEN { path }
  ELSE { path } \cup PathAndAncestors(Dir(path))

\* os.MkdirAll(path): fails when path or an ancestor exists as a file
MkdirAllOk(f, path) == \A q \in PathAndAncestors(path) : ~IsFile(f, q)

MkdirAll(f, path) ==
  LET new == PathAndAncestors(path) \ DOMAIN f
  IN [q \in DOMAIN f \cup new |-> IF q \in DOMAIN f THEN f[q] ELSE DirNode]

\* os.Create(path): O_RDWR|O_CREATE|O_TRUNC; fails when the parent is not a
\* directory or path is a directory
CreateOk(f, path) == IsDir(f, Dir(path)) /\ ~IsDir(f, path)

Create(f, path, owner) ==
  [q \in DOMAIN f \cup { path } |-> IF q = path THEN FileNode(<<>>, owner) ELSE f[q]]

\* io.Copy(dst, file) into the file created at path; the write is lost when
\* the file was unlinked in between
WriteFile(f, path, data) ==
  IF IsFile(f, path) THEN [f EXCEPT ![path].data = data] ELSE f

\* the names of the entries of directory path
EntryNames(f, path) ==
  { Base(q) : q \in { r \in DOMAIN f : r # path /\ Dir(r) = path } }

\* os.ReadDir(path) fails when path is not a directory
ReadDirOk(f, path) == IsDir(f, path)

\* the strings of S in increasing bytewise order (os.ReadDir sorts by filename)
RECURSIVE SortedByName(_)
SortedByName(S) ==
  IF S = {} THEN <<>>
  ELSE LET least == CHOOSE x \in S : \A y \in S \ { x } : StrLess(x, y)
       IN << least >> \o SortedByName(S \ { least })

ReadDir(f, path) == SortedByName(EntryNames(f, path))

\* os.Open(path) succeeds on files and on directories
OpenOk(f, path) == path \in DOMAIN f

\* a removal of what is below path that leaves path itself
RemoveContents(f, path) ==
  [q \in DOMAIN f \ { r \in DOMAIN f : IsBelow(r, path) } |-> f[q]]

\* os.RemoveAll(path): path and everything below it; no error when absent
RemovedBy(f, path) == { q \in DOMAIN f : q = path \/ IsBelow(q, path) }

RemoveAll(f, path) ==
  [q \in DOMAIN f \ RemovedBy(f, path) |-> f[q]]

----------------------------------------------------------------------------
(* Ordering of the chunk files *)

\* a less function that compares the names as strings
ChunkLessByName(a, b) == StrLess(a, b)

\* the less function handed to sort.Slice: numeric order of the names
ChunkLess(a, b) == IntLess(Atoi(a), Atoi(b))

\* the orders sort.Slice may leave the names of S in: sorted by ChunkLess,
\* names that compare equal in any order (sort.Slice is not stable)
RECURSIVE SortOrders(_)
SortOrders(S) ==
  IF S = {} THEN { <<>> }
  ELSE LET firsts == { x \in S : \A y \in S : ~ChunkLess(y, x) }
       IN UNION { { << x >> \o rest : rest \in SortOrders(S \ { x }) } : x \in firsts }

\* io.MultiReader over the opened files: their bytes one after the other
RECURSIVE ConcatData(_)
ConcatData(readers) ==
  IF readers = <<>> THEN <<>>
  ELSE readers[1].data \o ConcatData(Tail(readers))

----------------------------------------------------------------------------
(* Folder name and note *)

\* a folder name without the timestamp component
createFolderNameNoTimestamp(timestamp, email, phone) ==
  StrJoin((IF email # <<>> THEN << email >> ELSE <<>>)
            \o (IF phone # <<>> THEN << phone >> ELSE <<>>), << "-" >>)

\* createFolderName of the session-aware server: timestamp, then the
\* sanitized email and phone when given, joined by "-"
createFolderName(timestamp, email, phone) ==
  LET sanitizedEmail ==
        ReplaceAll(ReplaceAll(email, "@", << "_", "a", "t", "_" >>), ".", << "_" >>)
      sanitizedPhone ==
        ReplaceAll(
          ReplaceAll(
            ReplaceAll(
              ReplaceAll(
                ReplaceAll(phone, " ", <<>>), "-", <<>>), "(", <<>>), ")", <<>>),
          "+", << "p", "l", "u", "s" >>)
      components ==
        << Itoa(timestamp) >>
          \o (IF email # <<>> THEN << sanitizedEmail >> ELSE <<>>)
          \o (IF phone # <<>> THEN << sanitizedPhone >> ELSE <<>>)
  IN StrJoin(components, << "-" >>)

----------------------------------------------------------------------------
(* State *)

VARIABLES
  pc,              \* where the goroutine serving each request stands
  req,             \* the decoded request each goroutine serves
  loc,             \* the locals of each goroutine, with what it has done so far
  fs,              \* the local file system
  uploadSessions,  \* the global map: session id -> pointer to an UploadSession
  sessionObjs,     \* the heap of UploadSession objects: pointer -> object
  sessionsMutex,   \* the holder of the global sessionsMutex, 0 when free
  remoteFolders,   \* the folders of the WebDAV backend
  remoteFiles,     \* the files of the WebDAV backend: <<folder, name>> -> bytes
  now              \* time.Now().Unix()

vars ==
  << pc, req, loc, fs, uploadSessions, sessionObjs, sessionsMutex,
     remoteFolders, remoteFiles, now >>

\* the goroutines: one per request in flight
Procs == 1..5

NoProc == 0

NoSession == << >>

\* the locals of a handler before it has run
\* the status of a request that got no HTTP answer (client.Do returned an error)
NoStatus == 0

InitLoc ==
  [ cleanUploadID |-> <<>>, chunkDir |-> <<>>, chunkPath |-> <<>>,
    chunkFiles |-> <<>>, readers |-> <<>>, stream |-> <<>>, assembled |-> FALSE,
    folderName |-> <<>>, finalFilename |-> <<>>,
    session |-> NoProc, count |-> 0,
    shouldUploadDescription |-> "unset",
    status |-> 0,
    \* history of the request, for the properties
    fsOps |-> 0, listed |-> "no", mkcol |-> "no", filePut |-> "no",
    mkcolStatus |-> NoStatus,
    ret |-> "none", probe |-> "no", notePut |-> "no",
    purged |-> FALSE, removed |-> {},
    known |-> FALSE, overlapped |-> FALSE ]

NoRequest ==
  [ kind |-> "none", build |-> "sessions", uploadId |-> <<>>, chunkIndex |-> <<>>, data |-> <<>>,
    fileName |-> <<>>, email |-> <<>>, phone |-> <<>>,
    sessionId |-> NoSession, totalFiles |-> 0 ]

SessionRequest(sid, email, phone, n) ==
  [ NoRequest EXCEPT !.kind = "session", !.sessionId = sid, !.email = email,
                     !.phone = phone, !.totalFiles = n ]

ChunkRequest(id, index, data) ==
  [ NoRequest EXCEPT !.kind = "chunk", !.uploadId = id, !.chunkIndex = index,
                     !.data = data ]

CompleteRequest(id, name, email, phone, sid) ==
  [ NoRequest EXCEPT !.kind = "complete", !.uploadId = id, !.fileName = name,
                     !.email = email, !.phone = phone, !.sessionId = sid ]

\* a finalize request to the server built without sessions (src/main.go)
PlainCompleteRequest(id, name, email, phone) ==
  [ CompleteRequest(id, name, email, phone, NoSession) EXCEPT !.build = "plain" ]

\* a direct call of checkAndUpdateSession(sid, ...)
RecordRequest(sid) ==
  [ NoRequest EXCEPT !.kind = "record", !.sessionId = sid ]

Init ==
  /\ pc = [p \in Procs |-> "idle"]
  /\ req = [p \in Procs |-> NoRequest]
  /\ loc = [p \in Procs |-> InitLoc]
  /\ fs = InitialFS
  /\ uploadSessions = << >>
  /\ sessionObjs = << >>
  /\ sessionsMutex = NoProc
  /\ remoteFolders = {}
  /\ remoteFiles = << >>
  /\ now = 1

\* the goroutines with a call of checkAndUpdateSession for sid in progress
InRecord(sid) ==
  { q \in Procs : /\ req[q].kind \in {"record", "complete"}
                  /\ req[q].sessionId = sid
                  /\ pc[q] \in {"cus_lock", "cus_lookup", "cus_slock",
                               "cus_load", "cus_store", "cus_check"} }

\* a request arrives and net/http starts a goroutine for it
Start(p, r) ==
  /\ pc[p] = "idle"
  /\ req' = [req EXCEPT ![p] = r]
  /\ loc' = [loc EXCEPT ![p] =
       [ InitLoc EXCEPT !.known = r.sessionId \in DOMAIN uploadSessions,
                        !.overlapped = InRecord(r.sessionId) # {} ]]
  /\ pc' = [pc EXCEPT ![p] =
       CASE r.kind = "session"  -> "us_lock"
         [] r.kind = "chunk"    -> "ch_validate"
         [] r.kind = "complete" -> "uc_validate"
         [] r.kind = "record"   -> "cus_lock"]
  /\ UNCHANGED << fs, uploadSessions, sessionObjs, sessionsMutex,
                  remoteFolders, remoteFiles, now >>

\* requests that arrive at goroutines numbered in the order of arrival
StartInOrder(p, r) ==
  /\ \A q \in Procs : q < p => pc[q] # "idle"
  /\ Start(p, r)

\* a request that arrives when no other request is being served
StartAlone(p, r) ==
  /\ \A q \in Procs : pc[q] \in { "idle", "done" }
  /\ Start(p, r)

\* the goroutine of a served request is gone; its number is free again
Finish(p) ==
  /\ pc[p] = "done"
  /\ pc' = [pc EXCEPT ![p] = "idle"]
  /\ req' = [req EXCEPT ![p] = NoRequest]
  /\ loc' = [loc EXCEPT ![p] = InitLoc]
  /\ UNCHANGED << fs, uploadSessions, sessionObjs, sessionsMutex,
                  remoteFolders, remoteFiles, now >>

\* the handler writes its response and returns
Respond(p, code) ==
  /\ pc' = [pc EXCEPT ![p] = "done"]
  /\ loc' = [loc EXCEPT ![p].status = code]

----------------------------------------------------------------------------
(* handleUploadSession *)

\* a Lock that does not wait for the holder to unlock
LockNeverWaits(holder) == TRUE

\* Lock() of sessionsMutex and of UploadSession.Mutex returns once no
\* goroutine holds the mutex
LockAcquires(holder) == holder = NoProc

\* sessionsMutex.Lock()
UsLock(p) ==
  /\ pc[p] = "us_lock"
  /\ LockAcquires(sessionsMutex)
  /\ sessionsMutex' = p
  /\ pc' = [pc EXCEPT ![p] = "us_store"]
  /\ UNCHANGED << req, loc, fs, uploadSessions, sessionObjs,
                  remoteFolders, remoteFiles, now >>

\* The heap keeps the UploadSession objects that the map or a goroutine's
\* session variable still points to; the garbage collector frees the others.
\* The pointer to an object is the number of the goroutine that allocated it.
Collect(objs, map, locals) ==
  LET live == { map[s] : s \in DOMAIN map } \cup { locals[q].session : q \in Procs }
  IN [ptr \in DOMAIN objs \cap live |-> objs[ptr]]

\* a fresh UploadSession that counts one file as completed
NewSessionCounted(r) ==
  [ Email |-> r.email, Phone |-> r.phone, UploadCount |-> r.totalFiles,
    CompletedCount |-> 1, Mutex |-> NoProc ]

\* a fresh UploadSession with CompletedCount 0
NewSession(r) ==
  [ Email |-> r.email, Phone |-> r.phone, UploadCount |-> r.totalFiles,
    CompletedCount |-> 0, Mutex |-> NoProc ]

\* a register that keeps the entry of an id that is already mapped
UsStoreKeepsFirst(p) ==
  /\ pc[p] = "us_store"
  /\ uploadSessions' =
       [ s \in DOMAIN uploadSessions \cup { req[p].sessionId } |->
           IF s \in DOMAIN uploadSessions THEN uploadSessions[s] ELSE p ]
  /\ sessionsMutex' = NoProc
  /\ Respond(p, 200)
  /\ sessionObjs' =
       Collect([ptr \in DOMAIN sessionObjs \cup { p } |->
                  IF ptr = p THEN NewSession(req[p]) ELSE sessionObjs[ptr]],
               uploadSessions', loc')
  /\ UNCHANGED << req, fs, remoteFolders, remoteFiles, now >>

\* uploadSessions[id] = &UploadSession{...}; sessionsMutex.Unlock(); 200
UsStore(p) ==
  /\ pc[p] = "us_store"
  /\ uploadSessions' =
       [ s \in DOMAIN uploadSessions \cup { req[p].sessionId } |->
           IF s = req[p].sessionId THEN p ELSE uploadSessions[s] ]
  /\ sessionsMutex' = NoProc
  /\ Respond(p, 200)
  /\ sessionObjs' =
       Collect([ptr \in DOMAIN sessionObjs \cup { p } |->
                  IF ptr = p THEN NewSession(req[p]) ELSE sessionObjs[ptr]],
               uploadSessions', loc')
  /\ UNCHANGED << req, fs, remoteFolders, remoteFiles, now >>

----------------------------------------------------------------------------
(* checkAndUpdateSession *)

\* the function returns ret, and its locals are gone: to its caller
\* handleUploadComplete, or to the caller of a direct call
CusReturn(p, ret) ==
  IF req[p].kind = "record"
  THEN /\ pc' = [pc EXCEPT ![p] = "done"]
       /\ loc' = [loc EXCEPT ![p].ret = ret, ![p].session = NoProc,
                             ![p].count = 0]
  ELSE /\ pc' = [pc EXCEPT ![p] = "uc_probe"]
       /\ loc' = [loc EXCEPT ![p].ret = ret, ![p].session = NoProc,
                             ![p].count = 0,
                             ![p].shouldUploadDescription = ret]

\* sessionsMutex.Lock(); defer sessionsMutex.Unlock()
CusLock(p) ==
  /\ pc[p] = "cus_lock"
  /\ LockAcquires(sessionsMutex)
  /\ sessionsMutex' = p
  /\ pc' = [pc EXCEPT ![p] = "cus_lookup"]
  /\ UNCHANGED << req, loc, fs, uploadSessions, sessionObjs,
                  remoteFolders, remoteFiles, now >>

\* an unknown session reported as not complete
UnknownSessionResultFalse == "false"

\* a lookup whose early return leaves sessionsMutex locked
CusLookupKeepsLock(p) ==
  /\ pc[p] = "cus_lookup"
  /\ IF req[p].sessionId \notin DOMAIN uploadSessions
     THEN CusReturn(p, "true")
     ELSE /\ loc' = [loc EXCEPT ![p].session = uploadSessions[req[p].sessionId]]
          /\ pc' = [pc EXCEPT ![p] = "cus_slock"]
  /\ UNCHANGED << req, fs, uploadSessions, sessionObjs, sessionsMutex,
                  remoteFolders, remoteFiles, now >>

\* what checkAndUpdateSession returns for a session id that is not in the map
UnknownSessionResult == "true"

\* session, exists := uploadSessions[sessionID]; if !exists { return true }
CusLookup(p) ==
  /\ pc[p] = "cus_lookup"
  /\ IF req[p].sessionId \notin DOMAIN uploadSessions
     THEN /\ CusReturn(p, UnknownSessionResult)
          /\ sessionsMutex' = NoProc
     ELSE /\ loc' = [loc EXCEPT ![p].session = uploadSessions[req[p].sessionId]]
          /\ pc' = [pc EXCEPT ![p] = "cus_slock"]
          /\ UNCHANGED sessionsMutex
  /\ UNCHANGED << req, fs, uploadSessions, sessionObjs,
                  remoteFolders, remoteFiles, now >>

\* session.Mutex.Lock(); defer session.Mutex.Unlock()
CusSessionLock(p) ==
  /\ pc[p] = "cus_slock"
  /\ LockAcquires(sessionObjs[loc[p].session].Mutex)
  /\ sessionObjs' = [sessionObjs EXCEPT ![loc[p].session].Mutex = p]
  /\ pc' = [pc EXCEPT ![p] = "cus_load"]
  /\ UNCHANGED << req, loc, fs, uploadSessions, sessionsMutex,
                  remoteFolders, remoteFiles, now >>

\* session.CompletedCount++ : the load
CusLoad(p) ==
  /\ pc[p] = "cus_load"
  /\ loc' = [loc EXCEPT ![p].count = sessionObjs[loc[p].session].CompletedCount]
  /\ pc' = [pc EXCEPT ![p] = "cus_store"]
  /\ UNCHANGED << req, fs, uploadSessions, sessionObjs, sessionsMutex,
                  remoteFolders, remoteFiles, now >>

\* an increment that is lost: the store writes back what the load read
CusStoreLost(p) ==
  /\ pc[p] = "cus_store"
  /\ sessionObjs' =
       [sessionObjs EXCEPT ![loc[p].session].CompletedCount = loc[p].count]
  /\ pc' = [pc EXCEPT ![p] = "cus_check"]
  /\ UNCHANGED << req, loc, fs, uploadSessions, sessionsMutex,
                  remoteFolders, remoteFiles, now >>

\* session.CompletedCount++ : the store
CusStore(p) ==
  /\ pc[p] = "cus_store"
  /\ sessionObjs' =
       [sessionObjs EXCEPT ![loc[p].session].CompletedCount = loc[p].count + 1]
  /\ pc' = [pc EXCEPT ![p] = "cus_check"]
  /\ UNCHANGED << req, loc, fs, uploadSessions, sessionsMutex,
                  remoteFolders, remoteFiles, now >>

\* a completion test that is off by one
AllFilesCompletedStrict(session) == session.CompletedCount > session.UploadCount

\* a session taken as complete with its first file
AllFilesCompletedFirst(session) == session.CompletedCount >= 1

\* a completion test that asks for the exact count
AllFilesCompletedExactly(session) == session.CompletedCount = session.UploadCount

\* the completion test of checkAndUpdateSession
AllFilesCompleted(session) == session.CompletedCount >= session.UploadCount

\* a completed session left in the map
DeleteNothing(m, sid) == m

\* delete(uploadSessions, sessionID)
DeleteSession(m, sid) == [s \in DOMAIN m \ { sid } |-> m[s]]

\* if session.CompletedCount >= session.UploadCount { delete; return true }
\* return false; the deferred unlocks run as the function returns
CusCheck(p) ==
  /\ pc[p] = "cus_check"
  /\ LET session == sessionObjs[loc[p].session]
     IN IF AllFilesCompleted(session)
        THEN /\ uploadSessions' = DeleteSession(uploadSessions, req[p].sessionId)
             /\ CusReturn(p, "true")
        ELSE /\ UNCHANGED uploadSessions
             /\ CusReturn(p, "false")
  /\ sessionObjs' =
       Collect([sessionObjs EXCEPT ![loc[p].session].Mutex = NoProc],
               uploadSessions', loc')
  /\ sessionsMutex' = NoProc
  /\ UNCHANGED << req, fs, remoteFolders, remoteFiles, now >>

----------------------------------------------------------------------------
(* handleUploadChunk *)

\* a test that forgets ".."
InvalidUploadIDDotOnly(cleanUploadID) == cleanUploadID = << "." >>

\* the test both handlers apply to the cleaned identifier
InvalidUploadID(cleanUploadID) ==
  cleanUploadID = << "." >> \/ cleanUploadID = << ".", "." >>

\* cleanUploadID := filepath.Clean(filepath.Base(uploadID)); 400 when it is
\* "." or ".."; chunkDir := filepath.Join(appConfig.UploadTempDir, cleanUploadID)
ChValidate(p) ==
  /\ pc[p] = "ch_validate"
  /\ LET cleanUploadID == Clean(Base(req[p].uploadId))
     IN IF InvalidUploadID(cleanUploadID)
        THEN /\ pc' = [pc EXCEPT ![p] = "done"]
             /\ loc' = [loc EXCEPT ![p].cleanUploadID = cleanUploadID,
                                   ![p].status = 400]
        ELSE /\ pc' = [pc EXCEPT ![p] = "ch_mkdir"]
             /\ loc' = [loc EXCEPT ![p].cleanUploadID = cleanUploadID,
                                   ![p].chunkDir = Join(UploadTempDir, cleanUploadID)]
  /\ UNCHANGED << req, fs, uploadSessions, sessionObjs, sessionsMutex,
                  remoteFolders, remoteFiles, now >>

\* os.MkdirAll(chunkDir, os.ModePerm); 500 on error
ChMkdir(p) ==
  /\ pc[p] = "ch_mkdir"
  /\ IF MkdirAllOk(fs, loc[p].chunkDir)
     THEN /\ fs' = MkdirAll(fs, loc[p].chunkDir)
          /\ pc' = [pc EXCEPT ![p] = "ch_create"]
          /\ loc' = [loc EXCEPT ![p].fsOps = @ + 1]
     ELSE /\ UNCHANGED fs
          /\ pc' = [pc EXCEPT ![p] = "done"]
          /\ loc' = [loc EXCEPT ![p].fsOps = @ + 1, ![p].status = 500]
  /\ UNCHANGED << req, uploadSessions, sessionObjs, sessionsMutex,
                  remoteFolders, remoteFiles, now >>

\* chunkPath := filepath.Join(chunkDir, chunkIndex); os.Create(chunkPath);
\* 500 on error
ChCreate(p) ==
  /\ pc[p] = "ch_create"
  /\ LET chunkPath == Join(loc[p].chunkDir, req[p].chunkIndex)
     IN IF CreateOk(fs, chunkPath)
        THEN /\ fs' = Create(fs, chunkPath, loc[p].cleanUploadID)
             /\ pc' = [pc EXCEPT ![p] = "ch_copy"]
             /\ loc' = [loc EXCEPT ![p].chunkPath = chunkPath, ![p].fsOps = @ + 1]
        ELSE /\ UNCHANGED fs
             /\ pc' = [pc EXCEPT ![p] = "done"]
             /\ loc' = [loc EXCEPT ![p].chunkPath = chunkPath, ![p].fsOps = @ + 1,
                                   ![p].status = 500]
  /\ UNCHANGED << req, uploadSessions, sessionObjs, sessionsMutex,
                  remoteFolders, remoteFiles, now >>

\* io.Copy(dst, file): 200, or 500 when the write fails (outcome ok = FALSE)
ChCopy(p, outcomes) ==
  /\ pc[p] = "ch_copy"
  /\ \E ok \in outcomes :
       /\ fs' = IF ok THEN WriteFile(fs, loc[p].chunkPath, req[p].data) ELSE fs
       /\ pc' = [pc EXCEPT ![p] = "done"]
       /\ loc' = [loc EXCEPT ![p].fsOps = @ + 1,
                             ![p].status = IF ok THEN 200 ELSE 500]
  /\ UNCHANGED << req, uploadSessions, sessionObjs, sessionsMutex,
                  remoteFolders, remoteFiles, now >>

----------------------------------------------------------------------------
(* handleUploadComplete *)

\* cleanUploadID := filepath.Clean(filepath.Base(reqData.UploadID)); 400 when
\* it is "." or ".."; chunkDir := filepath.Join(UploadTempDir, cleanUploadID);
\* defer os.RemoveAll(chunkDir)
UcValidate(p) ==
  /\ pc[p] = "uc_validate"
  /\ LET cleanUploadID == Clean(Base(req[p].uploadId))
     IN IF InvalidUploadID(cleanUploadID)
        THEN /\ pc' = [pc EXCEPT ![p] = "done"]
             /\ loc' = [loc EXCEPT ![p].cleanUploadID = cleanUploadID,
                                   ![p].status = 400]
        ELSE /\ pc' = [pc EXCEPT ![p] = "uc_readdir"]
             /\ loc' = [loc EXCEPT ![p].cleanUploadID = cleanUploadID,
                                   ![p].chunkDir = Join(UploadTempDir, cleanUploadID)]
  /\ UNCHANGED << req, fs, uploadSessions, sessionObjs, sessionsMutex,
                  remoteFolders, remoteFiles, now >>

\* the elements of a sequence
Range(seq) == { seq[i] : i \in 1..Len(seq) }

\* a handler that uploads right after the assembly, without the folder
AfterAssemblySkipsFolder(p) == "uc_put"

\* what follows the assembly: the folder of the server with sessions, or
\* the upload of the server without
AfterAssembly(p) == IF req[p].build = "plain" THEN "pl_put" ELSE "uc_mkcol"

\* chunkFiles, err := os.ReadDir(chunkDir); 500 on error; sort.Slice(chunkFiles)
UcReadDir(p) ==
  /\ pc[p] = "uc_readdir"
  /\ IF ReadDirOk(fs, loc[p].chunkDir)
     THEN \E chunkFiles \in SortOrders(Range(ReadDir(fs, loc[p].chunkDir))) :
            /\ loc' = [loc EXCEPT ![p].chunkFiles = chunkFiles,
                                  ![p].listed = "ok", ![p].fsOps = @ + 1,
                                  ![p].assembled = (chunkFiles = <<>>)]
            /\ pc' = [pc EXCEPT ![p] =
                 IF chunkFiles = <<>> THEN AfterAssembly(p) ELSE "uc_open"]
     ELSE /\ loc' = [loc EXCEPT ![p].listed = "fail", ![p].fsOps = @ + 1,
                                ![p].status = 500]
          /\ pc' = [pc EXCEPT ![p] = "uc_purge"]
  /\ UNCHANGED << req, fs, uploadSessions, sessionObjs, sessionsMutex,
                  remoteFolders, remoteFiles, now >>

\* one turn of the loop over chunkFiles: os.Open(filepath.Join(chunkDir, name));
\* 500 on error, else readers = append(readers, f). The open fails when the
\* file is gone, or for a cause outside the model (outcome ok = FALSE).
\* stream is what io.MultiReader(readers...) will deliver.
UcOpen(p, outcomes) ==
  /\ pc[p] = "uc_open"
  /\ LET name == loc[p].chunkFiles[Len(loc[p].readers) + 1]
         path == Join(loc[p].chunkDir, name)
     IN \E ok \in outcomes :
          IF ok /\ OpenOk(fs, path)
          THEN /\ loc' = [loc EXCEPT
                            ![p].readers = Append(@, fs[path]),
                            ![p].fsOps = @ + 1,
                            ![p].assembled =
                              Len(loc[p].readers) + 1 = Len(loc[p].chunkFiles),
                            ![p].stream = ConcatData(Append(loc[p].readers, fs[path]))]
               /\ pc' = [pc EXCEPT ![p] =
                    IF Len(loc[p].readers) + 1 = Len(loc[p].chunkFiles)
                    THEN AfterAssembly(p) ELSE "uc_open"]
          ELSE /\ loc' = [loc EXCEPT ![p].listed = "openfail", ![p].fsOps = @ + 1,
                                     ![p].status = 500]
               /\ pc' = [pc EXCEPT ![p] = "uc_purge"]
  /\ UNCHANGED << req, fs, uploadSessions, sessionObjs, sessionsMutex,
                  remoteFolders, remoteFiles, now >>

\* the answers MKCOL can get: 201 for a folder the backend creates, 405 for
\* one that exists, and, when the request fails (outcome ok = FALSE), no
\* answer at all or a refusal such as 409
MkcolAnswers(folders, folderName, outcomes) ==
  { (IF folderName \in folders THEN 405 ELSE 201) : ok \in outcomes \cap { TRUE } }
    \cup (IF FALSE \in outcomes THEN { NoStatus, 409 } ELSE {})

\* a folder creation that takes only 201 for a success
createNextcloudFolderCreatedOnly(status) == status = 201

\* createNextcloudFolder returns nil: the request was answered, with 201
\* (created) or 405 (method not allowed: the folder exists)
createNextcloudFolder(status) ==
  status # NoStatus /\ ~(status # 201 /\ status # 405)

\* folderName := createFolderName(email, phone); createNextcloudFolder(folderName);
\* 500 on error
UcMkcol(p, outcomes) ==
  /\ pc[p] = "uc_mkcol"
  /\ LET folderName == createFolderName(now, req[p].email, req[p].phone)
     IN \E status \in MkcolAnswers(remoteFolders, folderName, outcomes) :
          IF createNextcloudFolder(status)
          THEN /\ remoteFolders' =
                    IF status = 201 THEN remoteFolders \cup { folderName }
                    ELSE remoteFolders
               /\ loc' = [loc EXCEPT ![p].folderName = folderName,
                                     ![p].mkcolStatus = status,
                                     ![p].mkcol =
                                       IF status = 405 THEN "exists" ELSE "created"]
               /\ pc' = [pc EXCEPT ![p] = "uc_put"]
          ELSE /\ remoteFolders' =
                    IF status = 201 THEN remoteFolders \cup { folderName }
                    ELSE remoteFolders
               /\ loc' = [loc EXCEPT ![p].folderName = folderName,
                                     ![p].mkcolStatus = status,
                                     ![p].mkcol = "fail", ![p].status = 500]
               /\ pc' = [pc EXCEPT ![p] = "uc_purge"]
  /\ UNCHANGED << req, fs, uploadSessions, sessionObjs, sessionsMutex,
                  remoteFiles, now >>

\* url.PathEscape on the characters in use: letters, digits, "-", "_", "."
\* and "+", "@" stay as they are in a path segment; "/", " ", "(" and ")"
\* become %XX
EscapeChar(c) ==
  CASE c = "/" -> << "%", "2", "F" >>
    [] c = " " -> << "%", "2", "0" >>
    [] c = "(" -> << "%", "2", "8" >>
    [] c = ")" -> << "%", "2", "9" >>
    [] OTHER   -> << c >>

RECURSIVE PathEscape(_)
PathEscape(s) ==
  IF s = <<>> THEN <<>> ELSE EscapeChar(s[1]) \o PathEscape(Tail(s))

\* the last segment of the URL that uploadToNextcloudFolder(folderName,
\* filename, data) sends its PUT to
PutSegment(filename) == PathEscape(filename)

\* a PUT of data to folder/name that the backend accepts (201 or 204)
PutFile(files, folder, name, data) ==
  [k \in DOMAIN files \cup { << folder, name >> } |->
     IF k = << folder, name >> THEN data ELSE files[k]]

\* a handler that reports the failed upload of the file and then goes on to
\* the session check and the note
UcPutFileGoesOn(p, outcomes) ==
  /\ pc[p] = "uc_put"
  /\ LET finalFilename == Base(req[p].fileName)
         readable == \A i \in 1..Len(loc[p].readers) : ~loc[p].readers[i].dir
     IN \E ok \in outcomes :
          /\ remoteFiles' =
               IF ok /\ readable
               THEN PutFile(remoteFiles, loc[p].folderName, finalFilename, loc[p].stream)
               ELSE remoteFiles
          /\ loc' = [loc EXCEPT ![p].finalFilename = finalFilename,
                                ![p].filePut = IF ok /\ readable THEN "ok" ELSE "fail",
                                ![p].status = IF ok /\ readable THEN @ ELSE 500,
                                ![p].shouldUploadDescription =
                                  IF req[p].sessionId # NoSession THEN @ ELSE "true"]
          /\ pc' = [pc EXCEPT ![p] =
               IF req[p].sessionId # NoSession THEN "cus_lock" ELSE "uc_probe"]
  /\ UNCHANGED << req, fs, uploadSessions, sessionObjs, sessionsMutex,
                  remoteFolders, now >>

\* finalFilename := filepath.Base(fileName); uploadToNextcloudFolder(folderName,
\* finalFilename, originalFileReader); 500 on error. The request fails when
\* the backend refuses it (outcome ok = FALSE) or when a reader is a directory.
\* Then the session check: checkAndUpdateSession when the request names a
\* session, else shouldUploadDescription = true.
UcPutFile(p, outcomes) ==
  /\ pc[p] = "uc_put"
  /\ LET finalFilename == Base(req[p].fileName)
         readable == \A i \in 1..Len(loc[p].readers) : ~loc[p].readers[i].dir
     IN \E ok \in outcomes :
          IF ok /\ readable
          THEN /\ remoteFiles' =
                    PutFile(remoteFiles, loc[p].folderName, finalFilename, loc[p].stream)
               /\ IF req[p].sessionId # NoSession
                  THEN /\ loc' = [loc EXCEPT ![p].finalFilename = finalFilename,
                                             ![p].filePut = "ok"]
                       /\ pc' = [pc EXCEPT ![p] = "cus_lock"]
                  ELSE /\ loc' = [loc EXCEPT ![p].finalFilename = finalFilename,
                                             ![p].filePut = "ok",
                                             ![p].shouldUploadDescription = "true"]
                       /\ pc' = [pc EXCEPT ![p] = "uc_probe"]
          ELSE /\ UNCHANGED remoteFiles
               /\ loc' = [loc EXCEPT ![p].finalFilename = finalFilename,
                                     ![p].filePut = "fail", ![p].status = 500]
               /\ pc' = [pc EXCEPT ![p] = "uc_purge"]
  /\ UNCHANGED << req, fs, uploadSessions, sessionObjs, sessionsMutex,
                  remoteFolders, now >>

\* checkDescriptionFileExists(folderName): HEAD answers 200 exactly when the
\* note is there; a transport failure (outcome ok = FALSE) counts as absent
DescriptionFileExists(files, folderName, ok) ==
  ok /\ << folderName, DescriptionFile >> \in DOMAIN files

\* a handler that uploads the note whatever the probe answers
UcProbeIgnoresAnswer(p, outcomes) ==
  /\ pc[p] = "uc_probe"
  /\ IF loc[p].shouldUploadDescription = "true"
     THEN \E ok \in outcomes :
            /\ loc' = [loc EXCEPT ![p].probe =
                         IF DescriptionFileExists(remoteFiles, loc[p].folderName, ok)
                         THEN "exists" ELSE "absent"]
            /\ pc' = [pc EXCEPT ![p] = "uc_putnote"]
     ELSE /\ loc' = [loc EXCEPT ![p].status = 200]
          /\ pc' = [pc EXCEPT ![p] = "uc_purge"]
  /\ UNCHANGED << req, fs, uploadSessions, sessionObjs, sessionsMutex,
                  remoteFolders, remoteFiles, now >>

\* if shouldUploadDescription { if checkDescriptionFileExists(folderName) {skip}
\* else -> the note upload } else {skip}; a skip leads to the 200 response
UcProbe(p, outcomes) ==
  /\ pc[p] = "uc_probe"
  /\ IF loc[p].shouldUploadDescription = "true"
     THEN \E ok \in outcomes :
            IF DescriptionFileExists(remoteFiles, loc[p].folderName, ok)
            THEN /\ loc' = [loc EXCEPT ![p].probe = "exists", ![p].status = 200]
                 /\ pc' = [pc EXCEPT ![p] = "uc_purge"]
            ELSE /\ loc' = [loc EXCEPT ![p].probe = "absent"]
                 /\ pc' = [pc EXCEPT ![p] = "uc_putnote"]
     ELSE /\ loc' = [loc EXCEPT ![p].status = 200]
          /\ pc' = [pc EXCEPT ![p] = "uc_purge"]
  /\ UNCHANGED << req, fs, uploadSessions, sessionObjs, sessionsMutex,
                  remoteFolders, remoteFiles, now >>

\* createDescriptionContent: the fields of the note (the fixed header and
\* footer lines and the timestamp line are left out)
createDescriptionContent(filename, email, phone) ==
  << "#" >> \o filename \o << "#" >> \o email
    \o (IF phone # <<>> THEN << "#" >> \o phone ELSE <<>>)

\* a handler that takes the uploaded file back when the upload of the note fails
UcPutNoteRollsBack(p, outcomes) ==
  /\ pc[p] = "uc_putnote"
  /\ \E ok \in outcomes :
       IF ok
       THEN /\ remoteFiles' =
                 PutFile(remoteFiles, loc[p].folderName, DescriptionFile,
                         createDescriptionContent(req[p].fileName, req[p].email,
                                                  req[p].phone))
            /\ loc' = [loc EXCEPT ![p].notePut = "ok", ![p].status = 200]
       ELSE /\ remoteFiles' =
                 [k \in DOMAIN remoteFiles \ { << loc[p].folderName, loc[p].finalFilename >> }
                    |-> remoteFiles[k]]
            /\ loc' = [loc EXCEPT ![p].notePut = "fail", ![p].status = 500]
  /\ pc' = [pc EXCEPT ![p] = "uc_purge"]
  /\ UNCHANGED << req, fs, uploadSessions, sessionObjs, sessionsMutex,
                  remoteFolders, now >>

\* uploadToNextcloudFolder(folderName, "descripcion.txt", descriptionReader);
\* 500 on error, else the 200 response
UcPutNote(p, outcomes) ==
  /\ pc[p] = "uc_putnote"
  /\ \E ok \in outcomes :
       IF ok
       THEN /\ remoteFiles' =
                 PutFile(remoteFiles, loc[p].folderName, DescriptionFile,
                         createDescriptionContent(req[p].fileName, req[p].email,
                                                  req[p].phone))
            /\ loc' = [loc EXCEPT ![p].notePut = "ok", ![p].status = 200]
       ELSE /\ UNCHANGED remoteFiles
            /\ loc' = [loc EXCEPT ![p].notePut = "fail", ![p].status = 500]
  /\ pc' = [pc EXCEPT ![p] = "uc_purge"]
  /\ UNCHANGED << req, fs, uploadSessions, sessionObjs, sessionsMutex,
                  remoteFolders, now >>

\* filepath.Ext: the suffix from the last dot of the last element on
Ext(path) ==
  LET dots == { i \in 1..Len(path) :
                  /\ path[i] = "."
                  /\ \A j \in i..Len(path) : path[j] # Separator }
  IN IF dots = {} THEN <<>>
     ELSE SubSeq(path, CHOOSE i \in dots : \A j \in dots : j <= i, Len(path))

\* strings.TrimSuffix
TrimSuffix(str, suffix) ==
  IF Len(str) >= Len(suffix)
     /\ SubSeq(str, Len(str) - Len(suffix) + 1, Len(str)) = suffix
  THEN SubSeq(str, 1, Len(str) - Len(suffix))
  ELSE str

\* the characters sanitizeFilename replaces by "_"
Problematic == << " ", "/", "\\", ":", "*", "?", "\"", "<", ">", "|" >>

RECURSIVE ReplaceEach(_, _, _)
ReplaceEach(str, olds, new) ==
  IF olds = <<>> THEN str
  ELSE ReplaceEach(ReplaceAll(str, olds[1], new), Tail(olds), new)

\* sanitizeFilename of the server without sessions: the name without its
\* extension, problematic characters replaced
sanitizeFilename(filename) ==
  ReplaceEach(TrimSuffix(filename, Ext(filename)), Problematic, << "_" >>)

\* createFolderName of the server without sessions: timestamp, email, phone
\* and the sanitized filename
createFolderNamePlain(timestamp, filename, email, phone) ==
  createFolderName(timestamp, email, phone) \o << "-" >> \o sanitizeFilename(filename)

\* the server without sessions: folderName := createFolderName(fileName,
\* email, phone); uploadToNextcloudFolder(folderName, finalFilename, reader);
\* 500 on error
PlPutFile(p, outcomes) ==
  /\ pc[p] = "pl_put"
  /\ LET folderName ==
           createFolderNamePlain(now, req[p].fileName, req[p].email, req[p].phone)
         finalFilename == Base(req[p].fileName)
         readable == \A i \in 1..Len(loc[p].readers) : ~loc[p].readers[i].dir
     IN \E ok \in outcomes :
          IF ok /\ readable
          THEN /\ remoteFiles' =
                    PutFile(remoteFiles, folderName, finalFilename, loc[p].stream)
               /\ loc' = [loc EXCEPT ![p].folderName = folderName,
                                     ![p].finalFilename = finalFilename,
                                     ![p].filePut = "ok"]
               /\ pc' = [pc EXCEPT ![p] = "pl_putnote"]
          ELSE /\ UNCHANGED remoteFiles
               /\ loc' = [loc EXCEPT ![p].folderName = folderName,
                                     ![p].finalFilename = finalFilename,
                                     ![p].filePut = "fail", ![p].status = 500]
               /\ pc' = [pc EXCEPT ![p] = "uc_purge"]
  /\ UNCHANGED << req, fs, uploadSessions, sessionObjs, sessionsMutex,
                  remoteFolders, now >>

\* the server without sessions: the note is always uploaded; 500 on error,
\* else the 200 response
PlPutNote(p, outcomes) ==
  /\ pc[p] = "pl_putnote"
  /\ \E ok \in outcomes :
       IF ok
       THEN /\ remoteFiles' =
                 PutFile(remoteFiles, loc[p].folderName, DescriptionFile,
                         createDescriptionContent(req[p].fileName, req[p].email,
                                                  req[p].phone))
            /\ loc' = [loc EXCEPT ![p].notePut = "ok", ![p].status = 200]
       ELSE /\ UNCHANGED remoteFiles
            /\ loc' = [loc EXCEPT ![p].notePut = "fail", ![p].status = 500]
  /\ pc' = [pc EXCEPT ![p] = "uc_purge"]
  /\ UNCHANGED << req, fs, uploadSessions, sessionObjs, sessionsMutex,
                  remoteFolders, now >>

\* a handler that returns without the purge
UcReturnWithoutPurge(p) ==
  /\ pc[p] = "uc_purge"
  /\ pc' = [pc EXCEPT ![p] = "done"]
  /\ UNCHANGED << req, loc, fs, uploadSessions, sessionObjs, sessionsMutex,
                  remoteFolders, remoteFiles, now >>

\* the deferred os.RemoveAll(chunkDir) runs as the handler returns
UcPurge(p) ==
  /\ pc[p] = "uc_purge"
  /\ fs' = RemoveAll(fs, loc[p].chunkDir)
  /\ loc' = [loc EXCEPT ![p].purged = TRUE, ![p].fsOps = @ + 1,
                        ![p].removed =
                          { << q, fs[q].owner >> :
                              q \in { r \in RemovedBy(fs, loc[p].chunkDir) : ~fs[r].dir } }]
  /\ pc' = [pc EXCEPT ![p] = "done"]
  /\ UNCHANGED << req, uploadSessions, sessionObjs, sessionsMutex,
                  remoteFolders, remoteFiles, now >>

\* a second of wall-clock time passes
Tick ==
  /\ now < MaxTime
  /\ now' = now + 1
  /\ UNCHANGED << pc, req, loc, fs, uploadSessions, sessionObjs, sessionsMutex,
                  remoteFolders, remoteFiles >>

----------------------------------------------------------------------------
(* The session registry on its own: concurrent register and                *)
(* recordCompletion calls                                                   *)

\* the session ids clients complete files for; only the first is ever
\* registered
SessionIds == { << "s" >>, << "r" >> }

RegisteredIds == { << "s" >> }

RegistryRequests ==
  { SessionRequest(sid, <<>>, <<>>, n) : sid \in RegisteredIds, n \in 1..MaxFiles }
    \cup { RecordRequest(sid) : sid \in SessionIds }

\* handleUploadSession
Register(p) ==
  \/ UsLock(p)
  \/ UsStore(p)

\* checkAndUpdateSession
Record(p) ==
  \/ CusLock(p)
  \/ CusLookup(p)
  \/ CusSessionLock(p)
  \/ CusLoad(p)
  \/ CusStore(p)
  \/ CusCheck(p)

Registry(p) ==
  \/ Register(p)
  \/ Record(p)

\* the goroutines of the calls
RegistryProcs == 1..4

NextRegistry ==
  \E p \in RegistryProcs :
    \/ \E r \in RegistryRequests : StartInOrder(p, r)
    \/ Registry(p)



SpecRegistry == Init /\ [][NextRegistry]_vars

----------------------------------------------------------------------------
(* The session registry under fair scheduling: the Go scheduler runs every *)
(* goroutine that can run, and sync.Mutex hands a lock that is free to a   *)
(* goroutine waiting for it                                                *)

LockProcs == 1..3

NextLocks ==
  \E p \in LockProcs :
    \/ \E r \in RegistryRequests : StartInOrder(p, r)
    \/ Registry(p)

SpecLocks ==
  Init /\ [][NextLocks]_vars /\ \A p \in LockProcs : WF_vars(Registry(p))

----------------------------------------------------------------------------
(* The session registry with any expected count: sessions registered with  *)
(* zero or negative counts, registered again, and two ids in the registry  *)

\* TotalFiles is a Go int that handleUploadSession stores as it comes
ExpectedCounts == (0 - 1)..MaxFiles

\* the first call registers "s", the two calls after it register or complete
\* either id, and the last call completes either id
FirstCountsRequests ==
  { SessionRequest(<< "s" >>, <<>>, <<>>, n) : n \in ExpectedCounts }

CountsRequests ==
  { SessionRequest(sid, <<>>, <<>>, n) : sid \in SessionIds, n \in ExpectedCounts }
    \cup { RecordRequest(sid) : sid \in SessionIds }

CountsProcs == 1..4

NextCounts ==
  \/ \E r \in FirstCountsRequests : Start(1, r)
  \/ \E p \in 2..3 : \E r \in CountsRequests : StartInOrder(p, r)
  \/ \E sid \in SessionIds : StartInOrder(4, RecordRequest(sid))
  \/ \E p \in CountsProcs : Registry(p)

SpecCounts == Init /\ [][NextCounts]_vars

----------------------------------------------------------------------------
(* The handlers as wholes *)

Chunk(p, outcomes) ==
  \/ ChValidate(p)
  \/ ChMkdir(p)
  \/ ChCreate(p)
  \/ ChCopy(p, outcomes)

\* handleUploadComplete of the server with sessions, without the call of
\* checkAndUpdateSession
Complete(p, outcomes) ==
  \/ UcValidate(p)
  \/ UcReadDir(p)
  \/ UcOpen(p, outcomes)
  \/ UcMkcol(p, outcomes)
  \/ UcPutFile(p, outcomes)
  \/ UcProbe(p, outcomes)
  \/ UcPutNote(p, outcomes)
  \/ UcPurge(p)

----------------------------------------------------------------------------
(* Upload identifiers: a chunk upload and then a finalize, each with any   *)
(* identifier made of at most MaxIdLen of the pieces "a", ".", ".." and    *)
(* "/"; the backend and the disk do not fail                               *)

IdPieces == { << "a" >>, << "." >>, << ".", "." >>, << "/" >> }

RECURSIVE Identifiers(_)
Identifiers(n) ==
  IF n = 0 THEN { <<>> }
  ELSE LET shorter == Identifiers(n - 1)
       IN shorter \cup { s \o t : s \in shorter, t \in IdPieces }

PathChunkRequests ==
  { ChunkRequest(id, << "0" >>, << "x" >>) : id \in Identifiers(MaxIdLen) }

PathCompleteRequests ==
  { CompleteRequest(id, << "f" >>, <<>>, <<>>, NoSession) : id \in Identifiers(MaxIdLen) }

NextPath ==
  \/ pc[1] = "idle" /\ \E r \in PathChunkRequests : StartAlone(1, r)
  \/ pc[2] = "idle" /\ \E r \in PathCompleteRequests : StartAlone(2, r)
  \/ \E p \in 1..2 : Chunk(p, { TRUE }) \/ Complete(p, { TRUE })

SpecPath == Init /\ [][NextPath]_vars

----------------------------------------------------------------------------
(* File names: a chunk upload and then a finalize of the upload whose file *)
(* name is made of at most MaxIdLen of the pieces "a", ".", ".." and "/";  *)
(* the backend and the disk do not fail                                    *)

FileNames == Identifiers(MaxIdLen)

FileNameCompleteRequests ==
  { CompleteRequest(<< "a" >>, name, <<>>, <<>>, NoSession) : name \in FileNames }

NextFileName ==
  \/ StartAlone(1, ChunkRequest(<< "a" >>, << "0" >>, << "x" >>))
  \/ Chunk(1, { TRUE })
  \/ pc[1] = "done" /\ \E r \in FileNameCompleteRequests : StartAlone(2, r)
  \/ Complete(2, { TRUE })

SpecFileName == Init /\ [][NextFileName]_vars

----------------------------------------------------------------------------
(* Chunk indices: a chunk is stored under identifier "b", and then one     *)
(* under identifier "a" whose chunkIndex is made of at most MaxIdLen of    *)
(* the pieces "0", "../" and "b/"; the disk does not fail                  *)

IndexPieces == { << "0" >>, << ".", ".", "/" >>, << "b", "/" >> }

RECURSIVE ChunkIndices(_)
ChunkIndices(n) ==
  IF n = 0 THEN { <<>> }
  ELSE LET shorter == ChunkIndices(n - 1)
       IN shorter \cup { s \o t : s \in shorter, t \in IndexPieces }

IndexChunkRequests ==
  { ChunkRequest(<< "a" >>, index, << "y" >>) : index \in ChunkIndices(MaxIdLen) }

NextIndex ==
  \/ StartAlone(1, ChunkRequest(<< "b" >>, << "0" >>, << "x" >>))
  \/ pc[1] = "done" /\ \E r \in IndexChunkRequests : StartAlone(2, r)
  \/ \E p \in 1..2 : Chunk(p, { TRUE })

SpecIndex == Init /\ [][NextIndex]_vars

----------------------------------------------------------------------------
(* A finalize that races with a chunk upload: chunk 0 of upload "a" is     *)
(* stored; then chunk 1 is uploaded and the upload is finalized, the chunk *)
(* upload beginning at any moment before the finalize has returned; the    *)
(* backend and the reading of the chunks may fail                          *)

NextRace ==
  \/ StartAlone(1, ChunkRequest(<< "a" >>, << "0" >>, << "x" >>))
  \/ /\ pc[1] = "done" /\ pc[3] # "done"
     /\ Start(2, ChunkRequest(<< "a" >>, << "1" >>, << "y" >>))
  \/ /\ pc[1] = "done"
     /\ Start(3, CompleteRequest(<< "a" >>, << "f" >>, <<>>, <<>>, NoSession))
  \/ \E p \in 1..2 : Chunk(p, { TRUE })
  \/ Complete(3, BOOLEAN)

SpecRace == Init /\ [][NextRace]_vars

----------------------------------------------------------------------------
(* Assembly: a client stores chunks with indices below MaxChunks under one *)
(* identifier, one request at a time and in any order, and then finalizes  *)
(* the upload; the backend and the disk do not fail                        *)

\* the bytes of the chunk with index i
ChunkData(i) == Itoa(i) \o << "_" >>

AssemblyId == << "a" >>

AssemblyChunkRequests ==
  { ChunkRequest(AssemblyId, Itoa(i), ChunkData(i)) : i \in 0..(MaxChunks - 1) }

AssemblyCompleteRequests ==
  { CompleteRequest(AssemblyId, << "f" >>, <<>>, <<>>, NoSession) }

NextAssembly ==
  \/ \E r \in AssemblyChunkRequests : pc[2] = "idle" /\ StartAlone(1, r)
  \/ Finish(1)
  \/ \E r \in AssemblyCompleteRequests : pc[1] = "idle" /\ StartAlone(2, r)
  \/ \E p \in 1..2 : Chunk(p, { TRUE }) \/ Complete(p, { TRUE })

SpecAssembly == Init /\ [][NextAssembly]_vars

----------------------------------------------------------------------------
(* Chunk names of any kind: a client stores chunks under one identifier,   *)
(* one request at a time and in any order, with indices that are numbers,  *)
(* signed numbers, no numbers, or a number past the largest int, and then  *)
(* finalizes the upload; the backend and the disk do not fail              *)

\* 2^63, one more than the largest int
TooBigIndex == MinIntMag

LenientNames ==
  { << "0" >>, << "1" >>, << "x" >>, << "1", "x" >>, << "+", "1" >>,
    << "-", "1" >>, TooBigIndex }

\* the bytes of the chunk stored under name
NamedChunkData(name) == name \o << "_" >>

LenientChunkRequests ==
  { ChunkRequest(AssemblyId, name, NamedChunkData(name)) : name \in LenientNames }

NextLenient ==
  \/ \E r \in LenientChunkRequests : pc[2] = "idle" /\ StartAlone(1, r)
  \/ Finish(1)
  \/ \E r \in AssemblyCompleteRequests : pc[1] = "idle" /\ StartAlone(2, r)
  \/ \E p \in 1..2 : Chunk(p, { TRUE }) \/ Complete(p, { TRUE })

SpecLenient == Init /\ [][NextLenient]_vars

----------------------------------------------------------------------------------------------------------------------------------------
(* One file without a session: a client stores the chunks 0 and 1 under    *)
(* one identifier, one request at a time, and then finalizes the upload,   *)
(* at the server with sessions or at the server without; disk and backend  *)
(* may fail, and time passes                                               *)

SubmissionNames == { << "f" >>, << "f", ".", "x" >> }

SubmissionEmails == { <<>>, << "e" >> }

SubmissionChunkRequests ==
  { ChunkRequest(<< "a" >>, Itoa(i), ChunkData(i)) : i \in 0..1 }

SubmissionCompleteRequests ==
  { CompleteRequest(<< "a" >>, name, email, <<>>, NoSession) :
      name \in SubmissionNames, email \in SubmissionEmails }
    \cup { PlainCompleteRequest(<< "a" >>, name, email, <<>>) :
             name \in SubmissionNames, email \in SubmissionEmails }

NextSubmission ==
  \/ \E r \in SubmissionChunkRequests : pc[2] = "idle" /\ StartAlone(1, r)
  \/ Chunk(1, BOOLEAN)
  \/ Finish(1)
  \/ \E r \in SubmissionCompleteRequests : pc[1] = "idle" /\ StartAlone(2, r)
  \/ Complete(2, BOOLEAN)
  \/ PlPutFile(2, BOOLEAN)
  \/ PlPutNote(2, BOOLEAN)
  \/ Tick

SpecSubmission == Init /\ [][NextSubmission]_vars

----------------------------------------------------------------------------------------------------------------------------------------
(* The server with sessions at work: a client registers a session of up to *)
(* MaxFiles files, stores a chunk under each of two identifiers and, once  *)
(* the session is registered, sends two finalize requests, one after the   *)
(* other, with or without the session id; the chunk uploads run at any     *)
(* moment; the backend and the reading of the chunks may fail, and time    *)
(* passes between the two finalize requests                                *)

\* the identifiers of the finalize requests: the two uploads and one that
\* the check of the identifier rejects
UploadIds == { << "a" >>, << "b" >>, << "." >> }

SessionRequests ==
  { SessionRequest(<< "s" >>, <<>>, <<>>, n) : n \in 1..MaxFiles }

CompleteRequests ==
  { CompleteRequest(id, << "f" >>, <<>>, <<>>, sid) :
      id \in UploadIds, sid \in { NoSession, << "s" >> } }

\* the goroutines that serve the finalize requests
Finalizers == 4..5

Next ==
  \/ \E r \in SessionRequests : StartAlone(1, r)
  \/ Register(1)
  \/ Start(2, ChunkRequest(<< "a" >>, << "0" >>, << "x" >>))
  \/ pc[2] = "done" /\ Start(3, ChunkRequest(<< "b" >>, << "0" >>, << "x" >>))
  \/ \E p \in 2..3 : Chunk(p, { TRUE })
  \/ \E p \in Finalizers :
       \/ \E r \in CompleteRequests :
            /\ pc[1] = "done"
            /\ \A q \in Finalizers : pc[q] = (IF q < p THEN "done" ELSE "idle")
            /\ Start(p, r)
       \/ Complete(p, BOOLEAN)
       \/ Record(p)
  \/ pc[4] = "done" /\ pc[5] = "idle" /\ Tick

Spec == Init /\ [][Next]_vars

----------------------------------------------------------------------------
(* Properties of the session registry *)

\* the requests that registered session sid
Registrations(sid) ==
  { p \in Procs : req[p].kind = "session" /\ req[p].sessionId = sid }

\* the calls of checkAndUpdateSession for session sid, made directly or by a
\* finalize that got as far as the session check
Completions(sid) ==
  { p \in Procs : /\ req[p].sessionId = sid
                  /\ \/ req[p].kind = "record"
                     \/ req[p].kind = "complete" /\ loc[p].filePut = "ok" }

Returned(p) == loc[p].ret # "none"

\* session sid was registered once, with n files, and every call for it
\* started when the session was in the registry
RegisteredOnce(sid, n) ==
  /\ Cardinality(Registrations(sid)) = 1
  /\ \A r \in Registrations(sid) : req[r].totalFiles = n
  /\ \A p \in Completions(sid) : loc[p].known

\* the number of p among the calls for sid, in the order of arrival
Rank(sid, p) == Cardinality({ q \in Completions(sid) : q <= p })

\* C1: a session registered once with N >= 1 files, for which exactly N
\* calls of checkAndUpdateSession ran, in any interleaving: exactly one call
\* returned true and the other N-1 returned false.
C1_ExactlyOneTrue ==
  \A sid \in SessionIds : \A n \in 1..MaxFiles :
    ( /\ RegisteredOnce(sid, n)
      /\ Cardinality(Completions(sid)) = n
      /\ \A p \in Completions(sid) : Returned(p) )
    => /\ Cardinality({ p \in Completions(sid) : loc[p].ret = "true" }) = 1
       /\ Cardinality({ p \in Completions(sid) : loc[p].ret = "false" }) = n - 1

\* C1 happens: three calls for a session of three files have returned, and
\* one of them started while another was inside checkAndUpdateSession
C1_Witness ==
  \E sid \in SessionIds :
    /\ RegisteredOnce(sid, 3)
    /\ Cardinality(Completions(sid)) = 3
    /\ \A p \in Completions(sid) : Returned(p)
    /\ \E p \in Completions(sid) : loc[p].overlapped

\* the calls for sid ran one after the other
Sequential(sid) == \A p \in Completions(sid) : ~loc[p].overlapped

\* C2: a session registered with N >= 1 files and N sequential calls of
\* checkAndUpdateSession: the k-th call returns true exactly when k = N, and
\* after the N-th call the session id is not in the registry.
C2_SequentialReturns ==
  \A sid \in SessionIds : \A n \in 1..MaxFiles :
    ( /\ RegisteredOnce(sid, n)
      /\ Sequential(sid)
      /\ Cardinality(Completions(sid)) <= n )
    => /\ \A p \in Completions(sid) :
            Returned(p) =>
              loc[p].ret = (IF Rank(sid, p) = n THEN "true" ELSE "false")
       /\ ( /\ Cardinality(Completions(sid)) = n
            /\ \A p \in Completions(sid) : Returned(p) )
          => sid \notin DOMAIN uploadSessions

\* C2 happens: three sequential calls for a session of three files returned
C2_Witness ==
  \E sid \in SessionIds :
    /\ RegisteredOnce(sid, 3)
    /\ Sequential(sid)
    /\ Cardinality(Completions(sid)) = 3
    /\ \A p \in Completions(sid) : Returned(p)

\* C3: a step of a checkAndUpdateSession call whose session id is not in the
\* registry leaves the map and every session object as they are, and the
\* lookup makes the call return true.
C3_UnknownSessionTrue ==
  [][ \A p \in Procs :
        ( /\ pc[p] \in { "cus_lock", "cus_lookup" }
          /\ pc'[p] # pc[p]
          /\ req[p].sessionId \notin DOMAIN uploadSessions )
        => /\ uploadSessions' = uploadSessions
           /\ sessionObjs' = sessionObjs
           /\ pc[p] = "cus_lookup" => loc'[p].ret = "true" ]_vars

\* C3 happens: a call for an id that was never registered returned while
\* another session was part-way, and a call for an id that a completing call
\* had removed returned
C3_Witness ==
  /\ \E p \in Procs :
       /\ req[p].kind = "record" /\ ~loc[p].known /\ Returned(p)
       /\ Registrations(req[p].sessionId) = {}
       /\ \E s \in DOMAIN uploadSessions :
            sessionObjs[uploadSessions[s]].CompletedCount > 0
  /\ \E p \in Procs :
       /\ req[p].kind = "record" /\ ~loc[p].known /\ Returned(p)
       /\ Registrations(req[p].sessionId) # {}

----------------------------------------------------------------------------
(* Properties of the upload identifier *)

\* a goroutine serving a chunk upload or a finalize that is past the check
\* of the identifier
Validated(p) ==
  /\ req[p].kind \in { "chunk", "complete" }
  /\ pc[p] \notin { "idle", "ch_validate", "uc_validate" }

Rejected(p) == pc[p] = "done" /\ loc[p].status = 400 /\ loc[p].fsOps = 0

\* whether string s ends with string t
EndsWith(s, t) ==
  Len(s) >= Len(t) /\ SubSeq(s, Len(s) - Len(t) + 1, Len(s)) = t

\* whether string t occurs in string s
Contains(s, t) ==
  \E i \in 1..(Len(s) - Len(t) + 1) : SubSeq(s, i, i + Len(t) - 1) = t

\* the identifier is empty, or its last element, trailing separators aside,
\* is "." or ".."
LastElementIsDot(id) ==
  LET stripped == StripTrailingSeparators(id)
  IN \/ id = <<>>
     \/ stripped \in { << "." >>, << ".", "." >> }
     \/ EndsWith(stripped, << "/", "." >>)
     \/ EndsWith(stripped, << "/", ".", "." >>)

\* C7 as amended: in upload-chunk and in upload-complete alike, an identifier
\* is answered 400 before any operation on the scratch file system exactly
\* when it is empty or its last element is "." or ".."; every other
\* identifier, with "../" in it or absolute, is let through.
C7_DotIdentifiersRejected ==
  \A p \in Procs :
    Validated(p) => (LastElementIsDot(req[p].uploadId) <=> Rejected(p))

\* C7 happens: both handlers have rejected such an identifier
C7_Witness ==
  /\ req[1].kind = "chunk" /\ Validated(1) /\ Rejected(1)
  /\ req[1].uploadId = << "a", "/", ".", "." >>
  /\ req[2].kind = "complete" /\ Validated(2) /\ Rejected(2)
  /\ req[2].uploadId = << ".", "/" >>

\* C7 as stated: every identifier that contains "../", is an absolute path,
\* is empty or normalizes to "." or ".." is answered 400 before any
\* operation on the scratch file system.
C7_Original ==
  \A p \in Procs :
    ( /\ Validated(p)
      /\ \/ Contains(req[p].uploadId, << ".", ".", "/" >>)
         \/ (req[p].uploadId # <<>> /\ req[p].uploadId[1] = "/")
         \/ req[p].uploadId = <<>>
         \/ Clean(req[p].uploadId) \in { << "." >>, << ".", "." >> }
         \/ LastElementIsDot(req[p].uploadId) )
    => Rejected(p)

\* C8: for an identifier that passes the check, the scratch directory of the
\* request is a direct child of the scratch root, and the purge of a
\* finalize removes no file stored under another normalized identifier.
C8_Original ==
  \A p \in Procs :
    (Validated(p) /\ ~Rejected(p)) =>
      /\ loc[p].chunkDir # ScratchRoot
      /\ Dir(loc[p].chunkDir) = ScratchRoot
      /\ \A f \in loc[p].removed : f[2] = loc[p].cleanUploadID

----------------------------------------------------------------------------
(* Properties of the assembly *)

\* the names of the chunks with indices 0..n-1
ChunkNames(n) == { Itoa(i) : i \in 0..(n - 1) }

\* the contents of the chunks 0..n-1 in ascending order of the index
RECURSIVE InIndexOrder(_)
InIndexOrder(n) ==
  IF n = 0 THEN <<>> ELSE InIndexOrder(n - 1) \o ChunkData(n - 1)

\* C9: when the chunks with indices 0..N-1 were stored, in whatever order, a
\* finalize that has opened them assembles their contents in ascending
\* numeric order of the index.
C9_AssembledInIndexOrder ==
  \A p \in Procs : \A n \in 1..MaxChunks :
    ( /\ req[p].kind = "complete"
      /\ loc[p].assembled
      /\ Range(loc[p].chunkFiles) = ChunkNames(n) )
    => /\ loc[p].stream = InIndexOrder(n)
       /\ loc[p].filePut = "ok" =>
            remoteFiles[<< loc[p].folderName, loc[p].finalFilename >>] = InIndexOrder(n)

\* C9 happens: eleven chunks, 0 to 10, were assembled and uploaded
C9_Witness ==
  \E p \in Procs :
    /\ req[p].kind = "complete"
    /\ Range(loc[p].chunkFiles) = ChunkNames(11)
    /\ loc[p].filePut = "ok"
    /\ pc[p] = "done"

----------------------------------------------------------------------------
(* Properties of the metadata note *)

\* the finalize calls for session sid whose upload of the note succeeded
NoteWrites(sid) ==
  { p \in Finalizers : /\ req[p].kind = "complete"
                       /\ req[p].sessionId = sid
                       /\ loc[p].notePut = "ok" }

\* the finalize calls that issued an upload of the note
NotePuts == { p \in Finalizers : loc[p].notePut \in { "ok", "fail" } }

\* C4: for a registered session, across any sequence of finalize calls that
\* carry its id, more calls than the expected count and calls whose note
\* upload fails included, the upload of the note succeeds exactly once: never
\* twice, and once when as many calls as the session expects have returned.
C4_NoteExactlyOnce ==
  \A sid \in SessionIds :
    /\ Cardinality(Registrations(sid)) = 1 => Cardinality(NoteWrites(sid)) <= 1
    /\ \A n \in 1..MaxFiles :
         ( /\ RegisteredOnce(sid, n)
           /\ Cardinality(Completions(sid)) >= n
           /\ \A p \in Completions(sid) : pc[p] = "done" )
         => Cardinality(NoteWrites(sid)) = 1

\* a session of two files, registered once and before the first of its two
\* finalize calls started, which both uploaded their file, met no note at the
\* backend and have returned
TwoFileSession(sid) ==
  /\ Cardinality(Registrations(sid)) = 1
  /\ \A r \in Registrations(sid) : req[r].totalFiles = 2
  /\ loc[4].known
  /\ Completions(sid) = Finalizers
  /\ \A p \in Finalizers : pc[p] = "done" /\ loc[p].probe # "exists"

\* C5: in a session registered with totalFiles = 2 whose two finalize calls
\* both upload their file, the backend reporting no note: the first call
\* (goroutine 4) issues no upload of the note and the second (goroutine 5)
\* issues exactly one, whichever of the two files arrives first.
C5_NoteWithSecondFile ==
  TwoFileSession(<< "s" >>)
    => /\ loc[4].probe = "no" /\ loc[4].notePut = "no"
       /\ loc[5].notePut \in { "ok", "fail" }
       /\ NotePuts = { 5 }

\* C5 happens: the two files of a session of two arrived, "b" before "a",
\* and the note went up with the second
C5_Witness ==
  /\ TwoFileSession(<< "s" >>)
  /\ req[4].uploadId = << "b" >> /\ req[5].uploadId = << "a" >>
  /\ loc[5].notePut = "ok"

----------------------------------------------------------------------------
(* Properties of a single file sent without a session *)

\* a finalize without session id that found the chunks 0 and 1, met no
\* failure of the disk or the backend and no note at the backend, and returned
SingleFileFinalized(p) ==
  /\ req[p].kind = "complete" /\ req[p].sessionId = NoSession
  /\ pc[p] = "done"
  /\ loc[p].chunkFiles = << << "0" >>, << "1" >> >>
  /\ loc[p].listed = "ok"
  /\ loc[p].mkcol # "fail" /\ loc[p].filePut # "fail"
  /\ loc[p].probe # "exists" /\ loc[p].notePut # "fail"

\* the files of the backend in a folder
FilesIn(folder) == { k \in DOMAIN remoteFiles : k[1] = folder }

\* the response is 200, the folder name holds the timestamp, and the folder
\* holds two files, the assembled original and the note; checkAndUpdateSession
\* was not called
SingleFileOutcome(p) ==
  /\ loc[p].status = 200
  /\ \E t \in 1..now : Contains(loc[p].folderName, Itoa(t))
  /\ FilesIn(loc[p].folderName) =
       { << loc[p].folderName, Base(req[p].fileName) >>,
         << loc[p].folderName, DescriptionFile >> }
  /\ Cardinality(FilesIn(loc[p].folderName)) = 2
  /\ remoteFiles[<< loc[p].folderName, Base(req[p].fileName) >>] = loc[p].stream
  /\ loc[p].ret = "none"

----------------------------------------------------------------------------
(* Properties of the purge *)

\* a chunk upload under the identifier of finalize p is under way
StoreChunkUnderWay(p) ==
  \E q \in Procs :
    /\ req[q].kind = "chunk" /\ pc[q] \notin { "idle", "done" }
    /\ Clean(Base(req[q].uploadId)) = loc[p].cleanUploadID

\* C10: a finalize past the check of its identifier returns, on every path,
\* with the purge of its scratch directory done; unless a chunk upload under
\* the same identifier is under way, the directory does not exist then.
C10_PurgeOnEveryExit ==
  [][\A p \in Procs :
       ( /\ req[p].kind = "complete" /\ Validated(p)
         /\ pc[p] # "done" /\ pc'[p] = "done" )
       => /\ loc'[p].purged
          /\ ~StoreChunkUnderWay(p) => loc'[p].chunkDir \notin DOMAIN fs']_vars

\* C10 happens: one finalize returned after its note upload failed, its
\* chunks removed by the purge, and another returned for want of chunks
C10_Witness ==
  /\ pc[4] = "done" /\ loc[4].notePut = "fail"
  /\ loc[4].purged /\ loc[4].removed # {}
  /\ pc[5] = "done" /\ loc[5].listed = "fail" /\ loc[5].purged

----------------------------------------------------------------------------
(* Properties of the probe for the note *)

\* C11: a finalize that is to write the note and whose probe found the note
\* at the backend issues no upload of the note and answers 200; a finalize
\* issues the upload of the note only after a probe that found none.
C11_NoteSkippedWhenPresent ==
  \A p \in Finalizers :
    /\ loc[p].probe # "no" => loc[p].shouldUploadDescription = "true"
    /\ loc[p].probe = "exists"
         => /\ loc[p].notePut = "no"
            /\ pc[p] \in { "uc_purge", "done" }
            /\ loc[p].status = 200
    /\ loc[p].notePut # "no" => loc[p].probe = "absent"

\* C11 happens: the second finalize found the note the first had written in
\* the same folder, wrote none and answered 200
C11_Witness ==
  /\ pc[4] = "done" /\ loc[4].notePut = "ok"
  /\ pc[5] = "done" /\ loc[5].probe = "exists" /\ loc[5].status = 200
  /\ loc[5].folderName = loc[4].folderName

----------------------------------------------------------------------------
(* Properties of the folder creation *)

\* C12: createNextcloudFolder succeeds exactly when MKCOL is answered 201
\* (created) or 405 (the folder exists), so the second of two calls for one
\* folder succeeds like the first; every other answer, and a request without
\* answer, is an error, and the finalize answers 500.
C12_FolderCreateIdempotent ==
  \A p \in Finalizers :
    loc[p].mkcol # "no"
      => /\ loc[p].mkcol # "fail" <=> loc[p].mkcolStatus \in { 201, 405 }
         /\ loc[p].mkcol = "fail" => loc[p].status = 500 /\ loc[p].filePut = "no"
         /\ loc[p].mkcolStatus = 405 => loc[p].folderName \in remoteFolders

\* C12 happens: two finalize calls asked for the same folder; the first was
\* answered 201, the second 405, and both went on to upload their file
C12_Witness ==
  /\ loc[4].mkcolStatus = 201 /\ loc[5].mkcolStatus = 405
  /\ loc[4].folderName = loc[5].folderName
  /\ loc[4].filePut = "ok" /\ loc[5].filePut = "ok"

----------------------------------------------------------------------------
(* Properties of the failures of a finalize *)

\* the steps of finalize p that failed
FailedSteps(p) ==
  { step \in { "assemble", "folder", "file", "note" } :
      \/ step = "assemble" /\ loc[p].listed \in { "fail", "openfail" }
      \/ step = "folder" /\ loc[p].mkcol = "fail"
      \/ step = "file" /\ loc[p].filePut = "fail"
      \/ step = "note" /\ loc[p].notePut = "fail" }

\* finalize p did nothing for the session and the note: no call of
\* checkAndUpdateSession, no probe, no upload of the note
NothingForTheNote(p) ==
  /\ loc[p].ret = "none" /\ loc[p].shouldUploadDescription = "unset"
  /\ loc[p].probe = "no" /\ loc[p].notePut = "no"

\* C13: the failure of a step of a finalize ends the pipeline with a single
\* 500: after a failed listing or opening of the chunks and after a failed
\* folder creation no upload is issued, and after a failed upload of the file
\* neither checkAndUpdateSession nor the probe nor the upload of the note.
C13_FailureEndsPipeline ==
  \A p \in Finalizers :
    /\ loc[p].listed \in { "fail", "openfail" }
         => loc[p].mkcol = "no" /\ loc[p].filePut = "no" /\ NothingForTheNote(p)
    /\ loc[p].mkcol = "fail" => loc[p].filePut = "no" /\ NothingForTheNote(p)
    /\ loc[p].filePut = "fail" => NothingForTheNote(p)
    /\ FailedSteps(p) # {}
         => /\ Cardinality(FailedSteps(p)) = 1
            /\ loc[p].status = 500
            /\ pc[p] \in { "uc_purge", "done" }
    /\ loc[p].status = 500 => FailedSteps(p) # {}

\* C13 happens: one finalize with a session id ended at the failed upload of
\* its file, another at the failed creation of its folder
C13_Witness ==
  /\ pc[4] = "done" /\ req[4].sessionId # NoSession
  /\ FailedSteps(4) = { "file" } /\ loc[4].status = 500
  /\ pc[5] = "done" /\ FailedSteps(5) = { "folder" } /\ loc[5].status = 500

----------------------------------------------------------------------------
(* Properties of a failed upload of the note *)

\* the upload of the note failed after finalize p had uploaded its file
NoteFailedAfterFile(p) ==
  /\ req[p].kind = "complete"
  /\ loc[p].filePut = "ok" /\ loc[p].notePut = "fail"

\* C14: when the upload of the note fails after the upload of the file
\* succeeded, the finalize answers 500 and goes to its return without another
\* request: the file stays at the backend as it was uploaded, and its upload
\* is not issued again.
C14_FileStaysWhenNoteFails ==
  \A p \in Procs :
    NoteFailedAfterFile(p)
      => /\ loc[p].status = 500
         /\ pc[p] \in { "uc_purge", "done" }
         /\ << loc[p].folderName, loc[p].finalFilename >> \in DOMAIN remoteFiles
         /\ remoteFiles[<< loc[p].folderName, loc[p].finalFilename >>] = loc[p].stream
         /\ << loc[p].folderName, DescriptionFile >> \notin DOMAIN remoteFiles

\* C14 happens: the server with sessions has returned 500 for a file of two
\* chunks whose note the backend refused
C14_Witness ==
  \E p \in Procs :
    /\ NoteFailedAfterFile(p) /\ pc[p] = "done"
    /\ req[p].build = "sessions"
    /\ loc[p].stream = ChunkData(0) \o ChunkData(1)

----------------------------------------------------------------------------
(* Properties of the order of the steps of a finalize *)

\* finalize p has called checkAndUpdateSession
SessionChecked(p) ==
  \/ loc[p].ret # "none"
  \/ pc[p] \in { "cus_lock", "cus_lookup", "cus_slock", "cus_load",
                 "cus_store", "cus_check" }

\* C19 as amended: the steps of a finalize come in the order validation of
\* the identifier, listing and opening of the chunks, folder creation, upload
\* of the file, checkAndUpdateSession, probe and upload of the note, each one
\* only after the one before succeeded; a finalize whose scratch directory
\* is missing fails before it has sent any request to the backend.
C19_StepsInOrder ==
  \A p \in Finalizers :
    /\ loc[p].listed # "no" => Validated(p) /\ ~Rejected(p)
    /\ loc[p].mkcol # "no" => loc[p].listed = "ok" /\ loc[p].assembled
    /\ loc[p].filePut # "no" => loc[p].mkcol \in { "created", "exists" }
    /\ SessionChecked(p) => loc[p].filePut = "ok"
    /\ loc[p].probe # "no" => loc[p].filePut = "ok" /\ ~(pc[p] \in { "cus_lock", "cus_lookup" })
    /\ loc[p].notePut # "no" => loc[p].probe = "absent"
    /\ loc[p].listed = "fail"
         => loc[p].mkcol = "no" /\ loc[p].folderName = <<>> /\ loc[p].filePut = "no"

\* C19 happens: a finalize without scratch directory failed at the listing,
\* with nothing asked of the backend, and another went through all its steps
C19_Witness ==
  /\ pc[4] = "done" /\ loc[4].listed = "fail" /\ loc[4].status = 500
  /\ remoteFolders = { loc[5].folderName } /\ loc[5].mkcol = "created"
  /\ pc[5] = "done" /\ loc[5].ret = "true" /\ loc[5].notePut = "ok"

\* C19 as stated: the folder creation is issued before the chunks are
\* listed, so that a finalize that has listed, or failed to list, its chunks
\* has issued the folder creation
C19_Original ==
  \A p \in Finalizers : loc[p].listed # "no" => loc[p].mkcol # "no"

----------------------------------------------------------------------------
(* Properties of the registry with any expected count *)

\* the step of goroutine p that ends its call of checkAndUpdateSession for a
\* session it found in the registry
RecordEnds(p) == pc[p] = "cus_check" /\ pc'[p] # "cus_check"

\* the call of p returns true and its session id is no longer in the
\* registry
ReturnsTrueAndRemoves(p) ==
  /\ loc'[p].ret = "true"
  /\ req[p].sessionId \notin DOMAIN uploadSessions'

\* the call of p returns false and its session id is still mapped to the
\* same session, whose counts are as the increment left them
ReturnsFalseAndKeeps(p) ==
  /\ loc'[p].ret = "false"
  /\ req[p].sessionId \in DOMAIN uploadSessions'
  /\ uploadSessions'[req[p].sessionId] = loc[p].session
  /\ sessionObjs'[loc[p].session].CompletedCount = loc[p].count + 1
  /\ sessionObjs'[loc[p].session].UploadCount = sessionObjs[loc[p].session].UploadCount

\* C15 as amended: for every session in the registry, whatever expected
\* count it was registered with, a call of checkAndUpdateSession adds one to
\* the completed count, returns true and removes the session exactly when
\* the count it has made is greater than or equal to the expected count, and
\* returns false and keeps the session otherwise.
C15_TrueWhenCountReached ==
  [][ \A p \in Procs :
        RecordEnds(p) =>
          LET session == sessionObjs[loc[p].session]
          IN /\ session.CompletedCount = loc[p].count + 1
             /\ IF loc[p].count + 1 >= session.UploadCount
                THEN ReturnsTrueAndRemoves(p)
                ELSE ReturnsFalseAndKeeps(p) ]_vars

\* C15 happens: the only call for a session registered with -1 files
\* returned true and the session is gone, and a call for a session of two
\* files returned false and the session is kept with one file completed
C15_Witness ==
  \E p, q \in Procs :
    /\ req[p].kind = "record" /\ loc[p].known /\ loc[p].ret = "true"
    /\ Completions(req[p].sessionId) = { p }
    /\ \A r \in Registrations(req[p].sessionId) : req[r].totalFiles = 0 - 1
    /\ req[p].sessionId \notin DOMAIN uploadSessions
    /\ req[q].kind = "record" /\ loc[q].known /\ loc[q].ret = "false"
    /\ req[q].sessionId \in DOMAIN uploadSessions
    /\ sessionObjs[uploadSessions[req[q].sessionId]].UploadCount = 2
    /\ sessionObjs[uploadSessions[req[q].sessionId]].CompletedCount = 1

\* C15 as stated: the call returns true and removes the session exactly when
\* its increment makes the completed count equal to the expected count
C15_Original ==
  [][ \A p \in Procs :
        RecordEnds(p) =>
          LET session == sessionObjs[loc[p].session]
          IN IF loc[p].count + 1 = session.UploadCount
             THEN ReturnsTrueAndRemoves(p)
             ELSE ReturnsFalseAndKeeps(p) ]_vars

\* the session that sid is mapped to
SessionOf(sid) == sessionObjs[uploadSessions[sid]]

\* no call is inside the critical section of the registry
RegistryAtRest == sessionsMutex = NoProc

\* C16 as amended: whenever no call holds the registry lock, every session
\* in the registry has a completed count >= 0; one registered with an
\* expected count >= 1 has a completed count strictly less than its expected
\* count, and one registered with an expected count <= 0 has the completed
\* count 0, which is not less than its expected count.
C16_StoredSessionCounts ==
  RegistryAtRest =>
    \A sid \in DOMAIN uploadSessions :
      /\ SessionOf(sid).CompletedCount >= 0
      /\ SessionOf(sid).UploadCount >= 1
           => SessionOf(sid).CompletedCount < SessionOf(sid).UploadCount
      /\ SessionOf(sid).UploadCount <= 0 => SessionOf(sid).CompletedCount = 0

\* C16 happens: with the registry at rest and the calls returned, one
\* session has one of two files completed and another is stored with an
\* expected count of 0
C16_Witness ==
  /\ RegistryAtRest
  /\ \E sid \in DOMAIN uploadSessions :
       SessionOf(sid).UploadCount = 2 /\ SessionOf(sid).CompletedCount = 1
  /\ \E sid \in DOMAIN uploadSessions : SessionOf(sid).UploadCount = 0
  /\ \E p \in Procs : req[p].kind = "record" /\ loc[p].ret = "false"
  /\ \A p \in Procs : pc[p] \in { "idle", "done" }

\* C16 as stated: every session in the registry is ACTIVE, its completed
\* count >= 0 and strictly less than its expected count
C16_Original ==
  RegistryAtRest =>
    \A sid \in DOMAIN uploadSessions :
      /\ SessionOf(sid).CompletedCount >= 0
      /\ SessionOf(sid).CompletedCount < SessionOf(sid).UploadCount

\* the step is the store of a handleUploadSession call for sid
RegisterStores(sid) ==
  \E p \in Procs :
    pc[p] = "us_store" /\ pc'[p] # "us_store" /\ req[p].sessionId = sid

\* the completed count sid is mapped to after the step
SessionOfNext(sid) == sessionObjs'[uploadSessions'[sid]]

\* C17 as amended: while a session id stays mapped in the registry, no step
\* of checkAndUpdateSession decreases its completed count (a step leaves it
\* or adds one to it); a register call for an id that is already registered
\* replaces the entry and resets the completed count to 0.
C17_CountResetOnlyByRegister ==
  [][ \A sid \in DOMAIN uploadSessions \cap DOMAIN uploadSessions' :
        IF RegisterStores(sid)
        THEN SessionOfNext(sid).CompletedCount = 0
        ELSE /\ uploadSessions'[sid] = uploadSessions[sid]
             /\ SessionOfNext(sid).CompletedCount
                  \in { SessionOf(sid).CompletedCount,
                        SessionOf(sid).CompletedCount + 1 } ]_vars

\* C17 happens: every call has returned, a call of checkAndUpdateSession
\* for a mapped id returned false, having counted a file, and the id is now
\* mapped to a session with 0 files completed that a second register stored
C17_Witness ==
  \E sid \in DOMAIN uploadSessions :
    /\ \A p \in Procs : pc[p] \in { "idle", "done" }
    /\ Cardinality(Registrations(sid)) = 2
    /\ \E p \in Completions(sid) : loc[p].known /\ loc[p].ret = "false"
    /\ SessionOf(sid).CompletedCount = 0

\* C17 as stated: the completed count of an id that stays mapped never
\* decreases, also when register is called again for the id
C17_Original ==
  [][ \A sid \in DOMAIN uploadSessions \cap DOMAIN uploadSessions' :
        SessionOfNext(sid).CompletedCount >= SessionOf(sid).CompletedCount ]_vars

\* C18: the store of a register call answers 200 and leaves the id mapped to
\* a new session with the expected count of the call and 0 files completed,
\* in place of any entry the id had; every other id of the registry is
\* mapped as before, to a session that is as before, and no other id is
\* added.
C18_RegisterReplacesEntry ==
  [][ \A p \in Procs :
        ( pc[p] = "us_store" /\ pc'[p] # "us_store" ) =>
          LET sid == req[p].sessionId
          IN /\ loc'[p].status = 200
             /\ DOMAIN uploadSessions' = DOMAIN uploadSessions \cup { sid }
             /\ SessionOfNext(sid).UploadCount = req[p].totalFiles
             /\ SessionOfNext(sid).CompletedCount = 0
             /\ SessionOfNext(sid).Email = req[p].email
             /\ SessionOfNext(sid).Phone = req[p].phone
             /\ sid \in DOMAIN uploadSessions
                  => uploadSessions'[sid] # uploadSessions[sid]
             /\ \A other \in DOMAIN uploadSessions \ { sid } :
                  /\ uploadSessions'[other] = uploadSessions[other]
                  /\ SessionOfNext(other) = SessionOf(other) ]_vars

\* C18 happens: two register calls for one id with different counts have
\* returned, the id is mapped to the session of the later goroutine with no
\* file completed, and another id, registered by the goroutine between
\* them, still has its one completed file
C18_Witness ==
  /\ \A p \in 1..3 : pc[p] = "done" /\ req[p].kind = "session"
  /\ req[1].sessionId = req[3].sessionId /\ req[1].totalFiles # req[3].totalFiles
  /\ req[2].sessionId # req[1].sessionId
  /\ DOMAIN uploadSessions = SessionIds
  /\ uploadSessions[req[3].sessionId] = 3
  /\ SessionOf(req[3].sessionId).UploadCount = req[3].totalFiles
  /\ SessionOf(req[3].sessionId).CompletedCount = 0
  /\ SessionOf(req[2].sessionId).CompletedCount = 1

----------------------------------------------------------------------------
(* Properties of the folder names *)

\* finalize calls p and q belong to different submissions: they are not
\* files of one session
DifferentSubmissions(p, q) ==
  /\ p # q
  /\ req[p].kind = "complete" /\ req[q].kind = "complete"
  /\ \/ req[p].sessionId = NoSession
     \/ req[q].sessionId = NoSession
     \/ req[p].sessionId # req[q].sessionId

\* C20 as stated: the folder names that two finalize calls of different
\* submissions have computed are different, also for the same email and
\* phone in the same second
C20_Original ==
  \A p, q \in Finalizers :
    ( /\ DifferentSubmissions(p, q)
      /\ loc[p].mkcol # "no" /\ loc[q].mkcol # "no" )
    => loc[p].folderName # loc[q].folderName

----------------------------------------------------------------------------
(* Properties of the file name *)

\* the file name is empty or normalizes, as the upload identifier does, to
\* "." or ".."
DotFileName(name) ==
  name = <<>> \/ Clean(Base(name)) \in { << "." >>, << ".", "." >> }

\* C21 as stated: a finalize whose file name is empty or normalizes to "."
\* or ".." is answered 400, and no upload is issued whose last URL segment
\* is ".", ".." or empty.
C21_Original ==
  \A p \in Procs :
    req[p].kind = "complete" =>
      /\ (DotFileName(req[p].fileName) /\ pc[p] = "done") => loc[p].status = 400
      /\ loc[p].filePut # "no"
           => PutSegment(loc[p].finalFilename) \notin { <<>>, << "." >>, << ".", "." >> }

----------------------------------------------------------------------------
(* Properties of the chunk index *)

\* C22 as stated: whatever its chunkIndex, the file a chunk upload writes
\* lies inside the scratch directory of the normalized identifier of that
\* upload, and holds what that upload, or a later one under the same
\* identifier, wrote.
C22_Original ==
  \A q \in DOMAIN fs :
    ~fs[q].dir => IsBelow(q, Join(UploadTempDir, fs[q].owner))

----------------------------------------------------------------------------
(* Properties of the locks *)

HoldsRegistryLock(p) == sessionsMutex = p

HoldsSessionLock(p) ==
  \E ptr \in DOMAIN sessionObjs : sessionObjs[ptr].Mutex = p

InCall(p) == pc[p] \notin { "idle", "done" }

\* a session lock is held only by the holder of the registry lock, a call
\* that waits for the registry lock holds no lock, a call that has returned
\* holds no lock, and while calls are in progress one of them can take a step
LockDiscipline ==
  /\ \A p \in LockProcs :
       /\ HoldsSessionLock(p) => HoldsRegistryLock(p)
       /\ pc[p] \in { "us_lock", "cus_lock" }
            => ~HoldsRegistryLock(p) /\ ~HoldsSessionLock(p)
       /\ ~InCall(p) => ~HoldsRegistryLock(p) /\ ~HoldsSessionLock(p)
  /\ (\E p \in LockProcs : InCall(p))
       => \E p \in LockProcs : ENABLED Registry(p)

\* C23: with concurrent register and checkAndUpdateSession calls on any
\* session ids, the session lock is only taken by the holder of the
\* registry lock and never the other way round, no state is a deadlock,
\* and, under fair scheduling, every call returns, with both locks released.
C23_CallsReturnLocksFree ==
  /\ []LockDiscipline
  /\ \A p \in LockProcs : InCall(p) ~> (pc[p] = "done")

\* C23 happens: one call has returned, another holds the registry lock and
\* the lock of its session, and a third waits for the registry lock
C23_Witness ==
  \E p, q, r \in LockProcs :
    /\ pc[p] = "done"
    /\ HoldsRegistryLock(q) /\ HoldsSessionLock(q)
    /\ pc[r] \in { "us_lock", "cus_lock" }

----------------------------------------------------------------------------
(* Properties of the count of finalized files *)

\* finalize p has added one to the completed count of the session it names:
\* the session was in the registry and p is past the increment
Counted(p) ==
  /\ req[p].kind = "complete" /\ req[p].sessionId # NoSession
  /\ loc[p].known
  /\ pc[p] = "cus_check" \/ Returned(p)

\* the finalize calls that have counted a file for session sid
CountedFor(sid) == { p \in Finalizers : req[p].sessionId = sid /\ Counted(p) }

\* C24: once a session is registered, its completed count is the number of
\* finalize calls that carry its id and have uploaded their file, as long
\* as it is in the registry, and when it is removed that number has reached
\* its expected count; a finalize that failed at the check of its
\* identifier, the listing or opening of the chunks, the folder creation or
\* the upload of the file has not called checkAndUpdateSession, and one
\* whose upload of the note failed has.
C24_CountedOncePerUploadedFile ==
  /\ \A p \in Finalizers :
       /\ SessionChecked(p) => loc[p].filePut = "ok" /\ req[p].sessionId # NoSession
       /\ Rejected(p) => loc[p].filePut = "no"
       /\ (loc[p].filePut = "ok" /\ req[p].sessionId # NoSession /\ pc[p] = "done")
            => Returned(p)
       /\ Returned(p) => (Counted(p) \/ ~loc[p].known)
  /\ \A sid \in SessionIds :
       (Registrations(sid) # {} /\ pc[1] = "done") =>
         IF sid \in DOMAIN uploadSessions
         THEN /\ SessionOf(sid).CompletedCount = Cardinality(CountedFor(sid))
              /\ SessionOf(sid).UploadCount = req[1].totalFiles
         ELSE Cardinality(CountedFor(sid)) = req[1].totalFiles

\* C24 happens: of two finalize calls for a session of one file, the first
\* failed at the upload of its file and left the session as it was, and the
\* second failed at the upload of the note after it had counted its file
\* and removed the session
C24_Witness ==
  /\ req[1].totalFiles = 1
  /\ req[4].sessionId = << "s" >> /\ pc[4] = "done" /\ loc[4].filePut = "fail"
  /\ req[5].sessionId = << "s" >> /\ pc[5] = "done" /\ loc[5].notePut = "fail"
  /\ Counted(5) /\ ~Counted(4)
  /\ << "s" >> \notin DOMAIN uploadSessions

----------------------------------------------------------------------------
(* Properties of the scratch directory when chunk uploads race a finalize *)

\* nothing is left of directory d in file system f
GoneIn(f, d) == \A q \in DOMAIN f : q # d /\ ~IsBelow(q, d)

\* the step is the os.MkdirAll of a chunk upload whose scratch directory is d
ChunkUploadMakes(d) ==
  \E q \in Procs :
    /\ req[q].kind = "chunk" /\ loc[q].chunkDir = d
    /\ pc[q] = "ch_mkdir" /\ pc'[q] = "ch_create"

\* C25 as amended: when a finalize returns while no chunk upload for its
\* identifier is under way, nothing is left of the scratch directory of the
\* identifier; once the directory is gone it stays away unless a chunk
\* upload for the same identifier creates it anew, as one does that the
\* purge has overtaken, and then the directory outlives the finalize.
C25_ScratchGoneUntilRecreated ==
  [][ \A p \in Procs :
        (req[p].kind = "complete" /\ loc[p].chunkDir # <<>>) =>
          /\ (pc[p] = "uc_purge" /\ pc'[p] = "done" /\ ~StoreChunkUnderWay(p))
               => GoneIn(fs', loc[p].chunkDir)
          /\ ( /\ pc[p] = "done" /\ pc'[p] = "done"
               /\ GoneIn(fs, loc[p].chunkDir) /\ ~GoneIn(fs', loc[p].chunkDir) )
               => ChunkUploadMakes(loc[p].chunkDir) ]_vars

\* C25 happens: the finalize has removed chunk 0 and returned, and the chunk
\* upload that it overtook has returned after storing chunk 1 in a scratch
\* directory it made anew
C25_Witness ==
  /\ pc[2] = "done" /\ loc[2].status = 200
  /\ pc[3] = "done" /\ loc[3].purged /\ loc[3].removed # {}
  /\ IsFile(fs, Join(loc[3].chunkDir, << "1" >>))
  /\ ~IsFile(fs, Join(loc[3].chunkDir, << "0" >>))

\* C25 as stated: once the finalize and the chunk uploads for its
\* identifier have returned, no scratch directory and no chunk file of the
\* identifier is left
C25_Original ==
  ( /\ \A p \in 1..3 : pc[p] = "done"
    /\ loc[3].purged )
  => GoneIn(fs, loc[3].chunkDir)

----------------------------------------------------------------------------
(* Properties of the lenient index policy *)

\* the name is a decimal integer that an int holds: an optional sign, then
\* digits only, and a value within the range of int
ParsesAsInt(name) ==
  LET signed == name # <<>> /\ name[1] \in {"+", "-"}
      body   == IF signed THEN Tail(name) ELSE name
  IN /\ body # <<>>
     /\ LeadingDigits(body) = body
     /\ ~MagLess(IF signed /\ name[1] = "-" THEN MinIntMag ELSE MaxIntMag,
                 StripZeros(body))

\* the index of the lenient policy: that of the name, or 0 for a name that
\* does not parse
LenientIndex(name) ==
  IF ParsesAsInt(name) THEN Atoi(name) ELSE GoInt(FALSE, <<>>)

\* the bytes of the chunks named in names, in that order
RECURSIVE NamedChunks(_)
NamedChunks(names) ==
  IF names = <<>> THEN <<>>
  ELSE NamedChunkData(names[1]) \o NamedChunks(Tail(names))

\* C26 as stated: a finalize lists every stored chunk exactly once, in
\* ascending order of the index, a name that does not parse as an integer
\* counting as index 0; it assembles their bytes in that order and is not
\* rejected on account of a name.
C26_Original ==
  \A p \in Procs :
    (req[p].kind = "complete" /\ loc[p].listed = "ok") =>
      LET names == loc[p].chunkFiles
      IN /\ Cardinality(Range(names)) = Len(names)
         /\ pc[p] # "done" => Range(names) = EntryNames(fs, loc[p].chunkDir)
         /\ \A i, j \in 1..Len(names) :
              i < j => ~IntLess(LenientIndex(names[j]), LenientIndex(names[i]))
         /\ loc[p].assembled => loc[p].stream = NamedChunks(names)
         /\ pc[p] = "done" => loc[p].status = 200

====
